---- MODULE Spec2Model ----
(***************************************************************************)
(* The versioned scene-mutation engine of the three.js LLM playground:     *)
(* src/src/main.js (mutation controller, version tree), the executor       *)
(* (src/unnamed/part_001: extractCode, executeCode) and the scene context  *)
(* (src/unnamed/part_003: view state, resetSceneToBase, frame loop).       *)
(*                                                                         *)
(* Text is a sequence of tokens.  A token is the fence ```, a language     *)
(* tag, a run of whitespace, a word of prose, or one whole JavaScript      *)
(* statement; a script is therefore a sequence of statements.              *)
(*                                                                         *)
(* Of the terminal only the lines a handler adds are kept.  The            *)
(* conversation history, the provider controls and the widgets of the      *)
(* terminal are not part of the state.                                     *)
(***************************************************************************)
EXTENDS Integers, Sequences, FiniteSets, TLC

(* ------------------------------ bounds --------------------------------- *)

\* longest sceneStateStack explored (root included)
MaxNodes == 4

\* the same where pointer drags are explored too
MaxViewNodes == 3

\* most children the live scene may hold (failed scripts can add for ever)
MaxChildren == 6

(* ------------------------------ values --------------------------------- *)

\* JavaScript null / a present value
None == [some |-> FALSE]

Some(v) == [some |-> TRUE, val |-> v]

\* a text or code argument that is not a string (undefined, null, an object);
\* it stands in the place of a text without being one
NotAString == <<"<not a string>">>

\* the three backquotes that open and close a fenced block
Fence == "<fence>"

LangTags == {"javascript", "js", "threejs"}

Whitespace == {" ", "\n\n"}

\* the statements scripts are made of, each one JavaScript statement:
\*   addCube    const m = new THREE.Mesh(..); m.name = "cube"; scene.add(m);
\*   paintCube  scene.getObjectByName("cube").material.color.set("red");
\*   spinCube   scene.getObjectByName("cube").userData.update = (t) => {..};
\*   shakeCube  the same with an update function that throws when called
\*   moveCam    camera.position.set(..);
\*   tilt       scene.rotation.y = 1;
\*   fog        scene.fog = new THREE.Fog(..);
\*   renameCube scene.getObjectByName("cube").name = "box";
\*   removeCube scene.remove(scene.getObjectByName("cube"));
\*   boom       undefinedFunction();
\*   leak       globalThis.leaked = true;
Statements ==
  {"addCube", "paintCube", "spinCube", "shakeCube", "moveCam", "tilt", "fog",
   "renameCube", "removeCube", "boom", "leak"}

\* words of prose that are the name of a binding
NameWords == {"scene"}

\* words of prose with one of the characters ; { } . = in them
Punctuated == {"Done."}

\* pieces of text that name one of the bindings scene, THREE, camera, renderer
NamesBinding == (Statements \ {"boom", "leak"}) \cup NameWords

(* ---------------------- text: extractCode ------------------------------ *)

RECURSIVE TrimLeft(_)
TrimLeft(s) ==
  IF s = <<>> THEN <<>>
  ELSE IF Head(s) \in Whitespace THEN TrimLeft(Tail(s)) ELSE s

RECURSIVE TrimRight(_)
TrimRight(s) ==
  IF s = <<>> THEN <<>>
  ELSE IF s[Len(s)] \in Whitespace THEN TrimRight(SubSeq(s, 1, Len(s) - 1)) ELSE s

\* String.prototype.trim
Trim(s) == TrimRight(TrimLeft(s))

\* index of the first fence at or after position i, 0 when there is none
RECURSIVE NextFence(_, _)
NextFence(text, i) ==
  IF i > Len(text) THEN 0
  ELSE IF text[i] = Fence THEN i ELSE NextFence(text, i + 1)

\* first position at or after i that holds no whitespace
RECURSIVE SkipWhitespace(_, _)
SkipWhitespace(text, i) ==
  IF i <= Len(text) /\ text[i] \in Whitespace THEN SkipWhitespace(text, i + 1) ELSE i

\* index of the last fence at or after position i, 0 when there is none
RECURSIVE LastFence(_, _)
LastFence(text, i) ==
  IF i > Len(text) THEN 0
  ELSE LET later == LastFence(text, i + 1) IN
       IF later # 0 THEN later ELSE IF text[i] = Fence THEN i ELSE 0

\* a variant of the pattern whose capture is greedy: one match, from the
\* first fence to the last
FenceCapturesGreedy(text, i) ==
  LET open == NextFence(text, i) IN
  IF open = 0 THEN <<>>
  ELSE
    LET afterTag == IF open + 1 <= Len(text) /\ text[open + 1] \in LangTags
                    THEN open + 2 ELSE open + 1
        start == SkipWhitespace(text, afterTag)
        close == LastFence(text, start)
    IN IF close = 0 THEN <<>> ELSE <<SubSeq(text, start, close - 1)>>

\* codeFencePattern, matched from position i on: the captures (group 1) of the
\* successive non-overlapping matches  ``` tag? \s* (lazy capture) ```
RECURSIVE FenceCaptures(_, _)
FenceCaptures(text, i) ==
  LET open == NextFence(text, i) IN
  IF open = 0 THEN <<>>
  ELSE
    LET afterTag == IF open + 1 <= Len(text) /\ text[open + 1] \in LangTags
                    THEN open + 2 ELSE open + 1
        start == SkipWhitespace(text, afterTag)
        close == NextFence(text, start)
    IN IF close = 0 THEN <<>>
       ELSE <<SubSeq(text, start, close - 1)>> \o FenceCaptures(text, close + 1)

\* .map((match) => match[1].trim()).filter(Boolean)
RECURSIVE TrimmedNonEmpty(_)
TrimmedNonEmpty(caps) ==
  IF caps = <<>> THEN <<>>
  ELSE LET t == Trim(Head(caps)) IN
       (IF t = <<>> THEN <<>> ELSE <<t>>) \o TrimmedNonEmpty(Tail(caps))

\* matches.join("\n\n")
RECURSIVE Join(_)
Join(parts) ==
  IF Len(parts) = 1 THEN Head(parts)
  ELSE Head(parts) \o <<"\n\n">> \o Join(Tail(parts))

\* /\b(scene|THREE|camera|renderer)\b/.test(text) && /[;{}.=]/.test(text):
\* every statement ends in ";", fences and the other words hold no such
\* punctuation
LooksLikeCode(text) ==
  /\ \E i \in 1..Len(text) : text[i] \in NamesBinding
  /\ \E i \in 1..Len(text) : text[i] \in Statements \cup Punctuated

extractCode(text) ==
  IF text = NotAString \/ Trim(text) = <<>> THEN None
  ELSE LET matches == TrimmedNonEmpty(FenceCaptures(text, 1)) IN
       IF Len(matches) > 0 THEN Some(Join(matches))
       ELSE IF LooksLikeCode(text) THEN Some(Trim(text)) ELSE None

(* ---------------------- the scene and the camera ----------------------- *)

\* camera.position as an angle on the orbit around controls.target
Angles == {0, 1}

Turn(theta, d) == (theta + d) % Cardinality(Angles)

\* an Object3D: its name, its material colour, userData.update ("none": no
\* function attached) and the visible effect of the update calls so far
Object(name) == [name |-> name, color |-> "white", update |-> "none", phase |-> 0]

\* addBaseSceneObjects: the four objects every base scene holds, in order
addBaseSceneObjects(children) ==
  children \o << Object("worldAmbientLight"), Object("worldDirectionalLight"),
                 Object("worldGrid"), Object("groundPlane") >>

\* the scene createScene builds: scene.children, scene.fog and the root's own
\* transform (scene.rotation.y)
createScene == [children |-> addBaseSceneObjects(<<>>), fog |-> FALSE, tilt |-> 0]

\* new PerspectiveCamera(..); camera.position.set(5, 4, 5)
createCamera == [theta |-> 0]

\* scene.getObjectByName(name): index of the first child of that name, 0 for
\* undefined
RECURSIVE IndexOfName(_, _, _)
IndexOfName(children, name, i) ==
  IF i > Len(children) THEN 0
  ELSE IF children[i].name = name THEN i ELSE IndexOfName(children, name, i + 1)

getObjectByName(children, name) == IndexOfName(children, name, 1)

(* ---------------------- executeCode ------------------------------------ *)

\* the runner body is a plain function body: besides its four parameters it
\* reaches the global object of the page; a script that wrote to it leaves
\* the field window in the context it returns
wrote(ctx) == "window" \in DOMAIN ctx

Returned(ctx) == [threw |-> FALSE, error |-> "", ctx |-> ctx]

Threw(error, ctx) == [threw |-> TRUE, error |-> error, ctx |-> ctx]

\* one statement run against the bindings; a statement that reads a property of
\* an object getObjectByName did not find throws a TypeError
runStatement(stmt, ctx) ==
  LET scene == ctx.scene
      cube == getObjectByName(scene.children, "cube")
  IN CASE stmt = "addCube" ->
            Returned([ctx EXCEPT !.scene.children = Append(@, Object("cube"))])
       [] stmt = "paintCube" ->
            IF cube = 0 THEN Threw("TypeError", ctx)
            ELSE Returned([ctx EXCEPT !.scene.children[cube].color = "red"])
       [] stmt = "spinCube" ->
            IF cube = 0 THEN Threw("TypeError", ctx)
            ELSE Returned([ctx EXCEPT !.scene.children[cube].update = "spin"])
       [] stmt = "shakeCube" ->
            IF cube = 0 THEN Threw("TypeError", ctx)
            ELSE Returned([ctx EXCEPT !.scene.children[cube].update = "crash"])
       [] stmt = "renameCube" ->
            IF cube = 0 THEN Threw("TypeError", ctx)
            ELSE Returned([ctx EXCEPT !.scene.children[cube].name = "box"])
       [] stmt = "removeCube" ->
            IF cube = 0 THEN Returned(ctx)
            ELSE Returned([ctx EXCEPT !.scene.children =
                             SubSeq(@, 1, cube - 1) \o SubSeq(@, cube + 1, Len(@))])
       [] stmt = "moveCam" -> Returned([ctx EXCEPT !.camera.theta = 1])
       [] stmt = "tilt" -> Returned([ctx EXCEPT !.scene.tilt = 1])
       [] stmt = "fog" -> Returned([ctx EXCEPT !.scene.fog = TRUE])
       [] stmt = "leak" ->
            Returned([scene |-> ctx.scene, camera |-> ctx.camera, window |-> "written"])
       [] OTHER -> Threw("ReferenceError", ctx)

\* the body of the runner: the statements in order, up to the first that throws;
\* what ran before it stays done
RECURSIVE runner(_, _)
runner(code, ctx) ==
  IF code = <<>> THEN Returned(ctx)
  ELSE IF Head(code) \in Whitespace THEN runner(Tail(code), ctx)
  ELSE LET r == runStatement(Head(code), ctx) IN
       IF r.threw THEN r ELSE runner(Tail(code), r.ctx)

\* new Function(.., code) throws a SyntaxError, before anything runs, when the
\* text is not JavaScript
Parses(code) == \A i \in 1..Len(code) : code[i] \in Statements \cup Whitespace

\* a variant of executeCode without the test of its argument
executeCodeUnchecked(code, ctx) ==
  IF ~Parses(code) THEN Threw("SyntaxError", ctx) ELSE runner(code, ctx)

executeCode(code, ctx) ==
  IF code = NotAString \/ Trim(code) = <<>>
  THEN Threw("No executable code was provided.", ctx)
  ELSE IF ~Parses(code) THEN Threw("SyntaxError", ctx)
  ELSE runner(code, ctx)

(* ---------------------- view state ------------------------------------- *)

\* rotation a pointer drag leaves in sphericalDelta
DragAngle == 2

\* new OrbitControls(camera, ..); enableDamping = true; sphericalDelta is the
\* rotation a drag asked for and update() has not yet applied
createControls == [enableDamping |-> TRUE, target |-> 0, enabled |-> TRUE, delta |-> 0]

\* OrbitControls.update(): with damping one part of sphericalDelta is applied
\* and the rest is kept for the next calls; without damping all of it is
\* applied and sphericalDelta is cleared
controlsUpdate(camera, controls) ==
  IF controls.enableDamping
  THEN IF controls.delta = 0 THEN [camera |-> camera, controls |-> controls]
       ELSE [camera |-> [camera EXCEPT !.theta = Turn(@, 1)],
             controls |-> [controls EXCEPT !.delta = @ - 1]]
  ELSE [camera |-> [camera EXCEPT !.theta = Turn(@, controls.delta)],
        controls |-> [controls EXCEPT !.delta = 0]]

\* a variant of undampedUpdate that does not put the damping flag back
undampedUpdateLeavingOff(camera, controls) ==
  controlsUpdate(camera, [controls EXCEPT !.enableDamping = FALSE])

\* previousDamping = enableDamping; enableDamping = false; update();
\* enableDamping = previousDamping
undampedUpdate(camera, controls) ==
  LET u == controlsUpdate(camera, [controls EXCEPT !.enableDamping = FALSE])
  IN [camera |-> u.camera,
      controls |-> [u.controls EXCEPT !.enableDamping = controls.enableDamping]]

\* the object captureViewState returns, read off the camera and the controls
snapshot(camera, controls) ==
  [camera |-> [theta |-> camera.theta],
   controls |-> [target |-> controls.target, enabled |-> controls.enabled]]

\* captureViewState: the camera and controls it leaves, and the view state
captureViewState(camera, controls) ==
  LET u == undampedUpdate(camera, controls)
  IN [camera |-> u.camera, controls |-> u.controls,
      viewState |-> snapshot(u.camera, u.controls)]

\* restoreViewState: the camera and controls it leaves
restoreViewState(viewState, camera, controls) ==
  LET cam == [camera EXCEPT !.theta = viewState.camera.theta]
      ctl == [controls EXCEPT !.target = viewState.controls.target,
                              !.enabled = viewState.controls.enabled]
      u == undampedUpdate(cam, ctl)
  IN controlsUpdate(u.camera, u.controls)

(* ---------------------- version tree ----------------------------------- *)

\* a variant of resetSceneToBase without the loop that removes the children
resetKeepingChildren(scene) ==
  [scene EXCEPT !.children = addBaseSceneObjects(@), !.fog = FALSE]

\* resetSceneToBase: every child removed, the scene-level properties it lists
\* set back, the base objects added again; the root's transform is not touched
resetSceneToBase(scene) ==
  [scene EXCEPT !.children = addBaseSceneObjects(<<>>), !.fog = FALSE]

\* the while loop of collectStateCodePath from `cursor` on, codePath being
\* what was collected so far.  steps counts the iterations left before the
\* walk is known to cycle (the loop itself would then never end)
RECURSIVE walkCodePath(_, _, _, _)
walkCodePath(stack, cursor, codePath, steps) ==
  IF cursor = 0 THEN [threw |-> FALSE, error |-> "", codePath |-> codePath]
  ELSE IF steps = 0 THEN [threw |-> TRUE, error |-> "never returns", codePath |-> codePath]
  ELSE IF cursor < 0 \/ cursor >= Len(stack)
  THEN [threw |-> TRUE, error |-> "is missing from the stack", codePath |-> codePath]
  ELSE LET state == stack[cursor + 1]
           collected == IF state.code.some /\ Trim(state.code.val) # <<>>
                        THEN <<state.code.val>> \o codePath ELSE codePath
       IN IF ~state.parentIndex.some \/ state.parentIndex.val < 0
          THEN [threw |-> TRUE, error |-> "has an invalid parent pointer",
                codePath |-> collected]
          ELSE walkCodePath(stack, state.parentIndex.val, collected, steps - 1)

\* a variant of collectStateCodePath that collects with push, newest first
RECURSIVE walkNewestFirst(_, _, _)
walkNewestFirst(stack, cursor, codePath) ==
  IF cursor <= 0 \/ cursor >= Len(stack)
  THEN [threw |-> FALSE, error |-> "", codePath |-> codePath]
  ELSE walkNewestFirst(stack, stack[cursor + 1].parentIndex.val,
                       codePath \o <<stack[cursor + 1].code.val>>)

collectNewestFirst(stack, stateIndex) == walkNewestFirst(stack, stateIndex, <<>>)

collectStateCodePath(stack, stateIndex) ==
  walkCodePath(stack, stateIndex, <<>>, Len(stack))

\* for (const code of codePath) executeCode(code, sceneContext): the first
\* script that throws ends the loop; executions counts the calls made
RECURSIVE replay(_, _, _)
replay(codePath, ctx, executions) ==
  IF codePath = <<>>
  THEN [threw |-> FALSE, error |-> "", ctx |-> ctx, executions |-> executions]
  ELSE LET r == executeCode(Head(codePath), ctx) IN
       IF r.threw
       THEN [threw |-> TRUE, error |-> r.error, ctx |-> r.ctx,
             executions |-> executions + 1]
       ELSE replay(Tail(codePath), r.ctx, executions + 1)

\* a variant of restoreSceneToStateIndex that resets the scene before it
\* looks at the index
restoreSceneResetFirst(stack, stateIndex, scene, camera, controls) ==
  LET base == resetSceneToBase(scene) IN
  IF stateIndex < 0 \/ stateIndex >= Len(stack)
  THEN [threw |-> TRUE, error |-> "is not available", scene |-> base,
        camera |-> camera, controls |-> controls, executions |-> 0,
        wrote |-> FALSE]
  ELSE LET path == collectStateCodePath(stack, stateIndex)
           r == replay(path.codePath, [scene |-> base, camera |-> camera], 0)
           v == restoreViewState(stack[stateIndex + 1].viewState, r.ctx.camera, controls)
       IN IF r.threw
          THEN [threw |-> TRUE, error |-> r.error, scene |-> r.ctx.scene,
                camera |-> r.ctx.camera, controls |-> controls,
                executions |-> r.executions, wrote |-> wrote(r.ctx)]
          ELSE [threw |-> FALSE, error |-> "", scene |-> r.ctx.scene,
                camera |-> v.camera, controls |-> v.controls,
                executions |-> r.executions, wrote |-> wrote(r.ctx)]

\* restoreSceneToStateIndex: whether it threw, and the scene, camera and
\* controls it leaves
restoreSceneToStateIndex(stack, stateIndex, scene, camera, controls) ==
  LET asIs(error) == [threw |-> TRUE, error |-> error, scene |-> scene,
                      camera |-> camera, controls |-> controls, executions |-> 0,
        wrote |-> FALSE]
  IN IF stateIndex < 0 \/ stateIndex >= Len(stack) THEN asIs("is not available")
     ELSE LET path == collectStateCodePath(stack, stateIndex) IN
          IF path.threw THEN asIs(path.error)
          ELSE LET r == replay(path.codePath,
                               [scene |-> resetSceneToBase(scene), camera |-> camera], 0)
               IN IF r.threw
                  THEN [threw |-> TRUE, error |-> r.error, scene |-> r.ctx.scene,
                        camera |-> r.ctx.camera, controls |-> controls,
                        executions |-> r.executions, wrote |-> wrote(r.ctx)]
                  ELSE LET v == restoreViewState(stack[stateIndex + 1].viewState,
                                                 r.ctx.camera, controls)
                       IN [threw |-> FALSE, error |-> "", scene |-> r.ctx.scene,
                           camera |-> v.camera, controls |-> v.controls,
                           executions |-> r.executions, wrote |-> wrote(r.ctx)]

(* ---------------------- state ------------------------------------------ *)

VARIABLES
  sceneStateStack,      \* main.js: the version tree, node i at position i + 1
  activeStateIndex,     \* main.js: the current node
  isBusy,               \* main.js: a submission is in flight
  awaiting,             \* handleSubmit is suspended at `await sendMessage(..)`
  revertActionEntries,  \* main.js: the revert buttons, as their state indexes
  scene,                \* sceneContext.scene
  camera,               \* sceneContext.camera
  controls,             \* the OrbitControls of the scene context
  disposed,             \* the scene context: dispose() was called
  history,              \* main.js: the conversation history sent with a request
  appended,             \* how many times appendHistory was called
  task,                 \* the handler that has started and not returned, and where it is
  server,               \* the proxy process: its environment, the request, upstream calls, responses
  globalThis,           \* the global object of the page, as far as scripts wrote to it
  last                  \* the latest handler call: what it was called with, how it
                        \* ended and the lines it added to the terminal log

vars == << sceneStateStack, activeStateIndex, isBusy, awaiting, revertActionEntries,
           scene, camera, controls, disposed, history, appended, task, server, globalThis, last >>

\* terminal.addUserMessage / addAssistantMessage / addError
Line(role, text) == [role |-> role, text |-> text]

\* arg: the state index of a revert, the script extracted from an answer;
\* executions: the executeCode calls the handler made
Call(op, arg, outcome, lines, executions) ==
  [op |-> op, arg |-> arg, outcome |-> outcome, lines |-> lines,
   executions |-> executions]

\* the texts a model answers with
Responses ==
  { <<Fence, "js", " ", "addCube", " ", Fence>>,
    <<" ", "addCube", " ">>,
    <<"Done", " ", Fence, "paintCube", Fence, " ", Fence, "js", " ", "moveCam", Fence>>,
    <<Fence, "addCube", " ", "boom", Fence>>,
    <<Fence, "tilt", " ", "fog", " ", "boom", Fence>>,
    <<"Sure", " ", "addCube">>,
    <<Fence, " ", Fence>>,
    <<"Hello">>,
    <<>> }

\* the proxy process left out: no environment read, no request received
NoServer ==
  [env |-> None, request |-> None, from |-> "nobody", upstream |-> <<>>, responses |-> <<>>]

\* what handleSubmit reads from the page: the selected provider's entry in
\* providerById (none, configured by the environment, or needing a key), the
\* key typed in, and whether the canvas gives a screenshot
PageInputs ==
  { [provider |-> "none", apiKey |-> "", screenshot |-> TRUE],
    [provider |-> "key", apiKey |-> "", screenshot |-> TRUE],
    [provider |-> "key", apiKey |-> "k", screenshot |-> TRUE],
    [provider |-> "env", apiKey |-> "", screenshot |-> FALSE],
    [provider |-> "env", apiKey |-> "", screenshot |-> TRUE] }

Init ==
  LET c == captureViewState(createCamera, createControls) IN
  /\ sceneStateStack = << [code |-> None, parentIndex |-> None, viewState |-> c.viewState] >>
  /\ activeStateIndex = 0
  /\ isBusy = FALSE
  /\ awaiting = FALSE
  /\ revertActionEntries = <<>>
  /\ scene = createScene
  /\ camera = c.camera
  /\ controls = c.controls
  /\ disposed = FALSE
  /\ history = <<>>
  /\ appended = 0
  /\ task = [op |-> "none", running |-> FALSE]
  /\ server = NoServer
  /\ globalThis = "pristine"
  /\ last = Call("createScene", None, "ready", <<Line("assistant", "Scene ready.")>>, 0)

(* ---------------------- revert buttons --------------------------------- *)

\* a variant of refreshRevertActions that takes the newest state for missing
refreshRevertActionsStale(entries, stackLength) ==
  [i \in 1..Len(entries) |->
     [entries[i] EXCEPT !.disabled = ~(entries[i].stateIndex < stackLength - 1)]]

\* refreshRevertActions: a button is disabled when its state is not in the stack
refreshRevertActions(entries, stackLength) ==
  [i \in 1..Len(entries) |->
     [entries[i] EXCEPT !.disabled = ~(entries[i].stateIndex < stackLength)]]

registerRevertAction(entries, stateIndex, stackLength) ==
  refreshRevertActions(Append(entries, [stateIndex |-> stateIndex, disabled |-> FALSE]),
                       stackLength)

(* ---------------------- handleSubmit ----------------------------------- *)

\* handleSubmit when isBusy: it returns at once
ignoreSubmit ==
  /\ last' = Call("handleSubmit", None, "ignored", <<>>, 0)
  /\ UNCHANGED << sceneStateStack, activeStateIndex, isBusy, awaiting,
                  revertActionEntries, scene, camera, controls, disposed, globalThis >>

\* a variant of acceptSubmit that sends the request when the canvas gave no
\* screenshot
acceptSubmitWithoutScreenshot(page) ==
  LET refused ==
        IF page.provider = "none" THEN "Select a provider before sending."
        ELSE IF page.provider = "key" /\ page.apiKey = ""
        THEN "Paste an API key before sending."
        ELSE ""
  IN /\ UNCHANGED << sceneStateStack, activeStateIndex, revertActionEntries,
                     scene, camera, controls, disposed, globalThis >>
     /\ IF refused # ""
        THEN /\ isBusy' = FALSE
             /\ awaiting' = FALSE
             /\ last' = Call("handleSubmit", None, "refused",
                             <<Line("user", "message"), Line("error", refused)>>, 0)
        ELSE /\ isBusy' = TRUE
             /\ awaiting' = TRUE
             /\ last' = Call("handleSubmit", None, "sent", <<Line("user", "message")>>, 0)

\* a variant of acceptSubmit that sends the request without setting isBusy
acceptSubmitNotBusy(page) ==
  /\ UNCHANGED << sceneStateStack, activeStateIndex, revertActionEntries,
                  scene, camera, controls, disposed, globalThis, isBusy >>
  /\ IF page \in { p \in PageInputs :
                     /\ p.screenshot
                     /\ p.provider = "env" \/ (p.provider = "key" /\ p.apiKey # "") }
     THEN /\ awaiting' = TRUE
          /\ last' = Call("handleSubmit", None, "sent", <<Line("user", "message")>>, 0)
     ELSE /\ awaiting' = FALSE
          /\ last' = Call("handleSubmit", None, "refused",
                          <<Line("user", "message"), Line("error", "refused")>>, 0)

\* handleSubmit when not busy, up to `await sendMessage(..)`: the three early
\* returns, each with its error line, or the request is sent
acceptSubmit(page) ==
  LET refused ==
        IF page.provider = "none" THEN "Select a provider before sending."
        ELSE IF page.provider = "key" /\ page.apiKey = ""
        THEN "Paste an API key before sending."
        ELSE IF ~page.screenshot
        THEN "Failed to capture scene screenshot. Message was not sent."
        ELSE ""
  IN /\ UNCHANGED << sceneStateStack, activeStateIndex, revertActionEntries,
                     scene, camera, controls, disposed, globalThis >>
     /\ IF refused # ""
        THEN /\ isBusy' = FALSE
             /\ awaiting' = FALSE
             /\ last' = Call("handleSubmit", None, "refused",
                             <<Line("user", "message"), Line("error", refused)>>, 0)
        ELSE /\ isBusy' = TRUE
             /\ awaiting' = TRUE
             /\ last' = Call("handleSubmit", None, "sent", <<Line("user", "message")>>, 0)

\* a variant of handleSubmit without the isBusy test
handleSubmitUnguarded(page) == acceptSubmit(page)

\* a submission of the terminal form
handleSubmit(page) ==
  IF isBusy THEN ignoreSubmit ELSE acceptSubmit(page)

\* a variant of newState that records no parent
newStateParentless(code, viewState) ==
  [code |-> code, parentIndex |-> None, viewState |-> viewState]

\* a variant of newState whose parent is the node pushed before it
newStateAfterLast(code, viewState) ==
  [code |-> code, parentIndex |-> Some(Len(sceneStateStack) - 1), viewState |-> viewState]

\* a variant of newState that is its own parent
newStateOwnParent(code, viewState) ==
  [code |-> code, parentIndex |-> Some(Len(sceneStateStack)), viewState |-> viewState]

\* the node handleSubmit pushes
newState(code, viewState) ==
  [code |-> code, parentIndex |-> Some(activeStateIndex), viewState |-> viewState]

\* executeCode returned: the node is pushed and becomes the current one, the
\* answer is shown with its revert button
scriptApplied(code, r, maxNodes) ==
  LET v == captureViewState(r.ctx.camera, controls)
      stateIndex == Len(sceneStateStack)
  IN /\ Len(sceneStateStack) < maxNodes
     /\ Len(r.ctx.scene.children) <= MaxChildren
     /\ sceneStateStack' = Append(sceneStateStack, newState(code, v.viewState))
     /\ activeStateIndex' = stateIndex
     /\ revertActionEntries' =
          registerRevertAction(revertActionEntries, stateIndex, Len(sceneStateStack) + 1)
     /\ scene' = r.ctx.scene
     /\ camera' = v.camera
     /\ controls' = v.controls
     /\ UNCHANGED disposed
     /\ globalThis' = IF wrote(r.ctx) THEN "written" ELSE globalThis
     /\ last' = Call("sendMessage", code, "applied",
                     <<Line("assistant", "Applied scene update.")>>, 1)

\* a variant of scriptFailed whose catch block puts the scene and the camera
\* back as they were before the script ran
scriptFailedRolledBack(code, r) ==
  /\ last' = Call("sendMessage", code, "failed",
                  <<Line("error", "Code execution failed: " \o r.error)>>, 1)
  /\ UNCHANGED << sceneStateStack, activeStateIndex, revertActionEntries, scene,
                  camera, controls, disposed, globalThis >>

\* a variant of scriptFailed that records the script all the same
scriptFailedRecorded(code, r) ==
  /\ Len(r.ctx.scene.children) <= MaxChildren
  /\ sceneStateStack' = Append(sceneStateStack, newState(code, snapshot(camera, controls)))
  /\ scene' = r.ctx.scene
  /\ camera' = r.ctx.camera
  /\ last' = Call("sendMessage", code, "failed",
                  <<Line("error", "Code execution failed: " \o r.error)>>, 1)
  /\ UNCHANGED << activeStateIndex, revertActionEntries, controls, disposed >>
  /\ globalThis' = IF wrote(r.ctx) THEN "written" ELSE globalThis

\* executeCode threw: the catch block adds the error line; what the script did
\* before it threw stays done
scriptFailed(code, r) ==
  /\ Len(r.ctx.scene.children) <= MaxChildren
  /\ scene' = r.ctx.scene
  /\ camera' = r.ctx.camera
  /\ last' = Call("sendMessage", code, "failed",
                  <<Line("error", "Code execution failed: " \o r.error)>>, 1)
  /\ UNCHANGED << sceneStateStack, activeStateIndex, revertActionEntries, controls,
                  disposed >>
  /\ globalThis' = IF wrote(r.ctx) THEN "written" ELSE globalThis

\* responseText || "No code block returned."
Shown(responseText) ==
  IF responseText = <<>> THEN <<"No code block returned.">> ELSE responseText

\* a variant of noScript that records the answer as a state of its own
noScriptRecorded(responseText) ==
  /\ Len(sceneStateStack) < MaxNodes
  /\ sceneStateStack' =
       Append(sceneStateStack, newState(None, snapshot(camera, controls)))
  /\ activeStateIndex' = Len(sceneStateStack)
  /\ revertActionEntries' =
       registerRevertAction(revertActionEntries, Len(sceneStateStack),
                            Len(sceneStateStack) + 1)
  /\ last' = Call("sendMessage", None, "plain",
                  <<Line("assistant", Shown(responseText))>>, 0)
  /\ UNCHANGED << scene, camera, controls, disposed, globalThis >>

\* no script in the answer: the text is shown
noScript(responseText) ==
  /\ last' = Call("sendMessage", None, "plain",
                  <<Line("assistant", Shown(responseText))>>, 0)
  /\ UNCHANGED << sceneStateStack, activeStateIndex, revertActionEntries,
                  scene, camera, controls, disposed, globalThis >>

\* handleSubmit from the point where sendMessage resolved with responseText
sendMessageResolved(responseText, maxNodes) ==
  /\ awaiting
  /\ LET code == extractCode(responseText) IN
     IF code.some
     THEN LET r == executeCode(code.val, [scene |-> scene, camera |-> camera]) IN
          IF r.threw THEN scriptFailed(code, r) ELSE scriptApplied(code, r, maxNodes)
     ELSE noScript(responseText)
  /\ isBusy' = FALSE
  /\ awaiting' = FALSE

\* a variant of sendMessageRejected whose catch is not followed by the finally
sendMessageRejectedStuck ==
  /\ awaiting
  /\ awaiting' = FALSE
  /\ last' = Call("sendMessage", None, "rejected", <<Line("error", "Request failed")>>, 0)
  /\ UNCHANGED << sceneStateStack, activeStateIndex, revertActionEntries,
                  scene, camera, controls, disposed, globalThis, isBusy >>

\* handleSubmit from the point where sendMessage rejected
sendMessageRejected ==
  /\ awaiting
  /\ isBusy' = FALSE
  /\ awaiting' = FALSE
  /\ last' = Call("sendMessage", None, "rejected", <<Line("error", "Request failed")>>, 0)
  /\ UNCHANGED << sceneStateStack, activeStateIndex, revertActionEntries,
                  scene, camera, controls, disposed, globalThis >>

(* ---------------------- revertToState ---------------------------------- *)

\* revertToState when isBusy: the error line and nothing else
rejectRevert(stateIndex) ==
  /\ last' = Call("revertToState", stateIndex, "busy",
                  <<Line("error", "Wait for the current request to finish before reverting.")>>, 0)
  /\ UNCHANGED << sceneStateStack, activeStateIndex, isBusy, awaiting,
                  revertActionEntries, scene, camera, controls, disposed, globalThis >>

\* a variant of tryRevert whose catch block puts the scene and the camera back
\* as they were before the revert
tryRevertRollingBack(stateIndex) ==
  LET r == restoreSceneToStateIndex(sceneStateStack, stateIndex, scene, camera, controls)
  IN /\ scene' = IF r.threw THEN scene ELSE r.scene
     /\ camera' = IF r.threw THEN camera ELSE r.camera
     /\ controls' = r.controls
     /\ UNCHANGED << sceneStateStack, isBusy, awaiting, disposed >>
     /\ globalThis' = IF r.wrote THEN "written" ELSE globalThis
     /\ IF r.threw
        THEN /\ last' = Call("revertToState", stateIndex, "failed",
                             <<Line("error", "Revert failed: " \o r.error)>>, r.executions)
             /\ UNCHANGED << activeStateIndex, revertActionEntries >>
        ELSE /\ activeStateIndex' = stateIndex
             /\ revertActionEntries' =
                  refreshRevertActions(revertActionEntries, Len(sceneStateStack))
             /\ last' = Call("revertToState", stateIndex, "reverted",
                             <<Line("assistant", "Reverted to scene state.")>>, r.executions)

\* a variant of tryRevert that makes the target current before it restores
tryRevertIndexFirst(stateIndex) ==
  LET r == restoreSceneToStateIndex(sceneStateStack, stateIndex, scene, camera, controls)
  IN /\ scene' = r.scene
     /\ camera' = r.camera
     /\ controls' = r.controls
     /\ UNCHANGED << sceneStateStack, isBusy, awaiting, disposed >>
     /\ globalThis' = IF r.wrote THEN "written" ELSE globalThis
     /\ activeStateIndex' = stateIndex
     /\ IF r.threw
        THEN /\ last' = Call("revertToState", stateIndex, "failed",
                             <<Line("error", "Revert failed: " \o r.error)>>, r.executions)
             /\ UNCHANGED revertActionEntries
        ELSE /\ revertActionEntries' =
                  refreshRevertActions(revertActionEntries, Len(sceneStateStack))
             /\ last' = Call("revertToState", stateIndex, "reverted",
                             <<Line("assistant", "Reverted to scene state.")>>, r.executions)

\* a variant of tryRevert that drops the nodes after the target, as an undo
\* stack would
tryRevertTruncating(stateIndex) ==
  LET r == restoreSceneToStateIndex(sceneStateStack, stateIndex, scene, camera, controls)
  IN /\ scene' = r.scene
     /\ camera' = r.camera
     /\ controls' = r.controls
     /\ UNCHANGED << isBusy, awaiting, disposed >>
     /\ globalThis' = IF r.wrote THEN "written" ELSE globalThis
     /\ sceneStateStack' =
          IF r.threw THEN sceneStateStack ELSE SubSeq(sceneStateStack, 1, stateIndex + 1)
     /\ activeStateIndex' = IF r.threw THEN activeStateIndex ELSE stateIndex
     /\ revertActionEntries' =
          IF r.threw THEN revertActionEntries
          ELSE refreshRevertActions(revertActionEntries, stateIndex + 1)
     /\ last' = Call("revertToState", stateIndex,
                     IF r.threw THEN "failed" ELSE "reverted",
                     <<Line(IF r.threw THEN "error" ELSE "assistant", "revert")>>,
                     r.executions)

\* a variant of tryRevert that leaves activeStateIndex where it was
tryRevertKeepingIndex(stateIndex) ==
  LET r == restoreSceneToStateIndex(sceneStateStack, stateIndex, scene, camera, controls)
  IN /\ scene' = r.scene
     /\ camera' = r.camera
     /\ controls' = r.controls
     /\ UNCHANGED << sceneStateStack, activeStateIndex, isBusy, awaiting, disposed >>
     /\ globalThis' = IF r.wrote THEN "written" ELSE globalThis
     /\ revertActionEntries' =
          IF r.threw THEN revertActionEntries
          ELSE refreshRevertActions(revertActionEntries, Len(sceneStateStack))
     /\ last' = Call("revertToState", stateIndex,
                     IF r.threw THEN "failed" ELSE "reverted",
                     <<Line(IF r.threw THEN "error" ELSE "assistant", "revert")>>,
                     r.executions)

\* the try block of revertToState and its catch
tryRevert(stateIndex) ==
  LET r == restoreSceneToStateIndex(sceneStateStack, stateIndex, scene, camera, controls)
  IN /\ scene' = r.scene
     /\ camera' = r.camera
     /\ controls' = r.controls
     /\ UNCHANGED << sceneStateStack, isBusy, awaiting, disposed >>
     /\ globalThis' = IF r.wrote THEN "written" ELSE globalThis
     /\ IF r.threw
        THEN /\ last' = Call("revertToState", stateIndex, "failed",
                             <<Line("error", "Revert failed: " \o r.error)>>, r.executions)
             /\ UNCHANGED << activeStateIndex, revertActionEntries >>
        ELSE /\ activeStateIndex' = stateIndex
             /\ revertActionEntries' =
                  refreshRevertActions(revertActionEntries, Len(sceneStateStack))
             /\ last' = Call("revertToState", stateIndex, "reverted",
                             <<Line("assistant", "Reverted to scene state.")>>, r.executions)

\* a variant of revertToState without the isBusy test
revertToStateUnguarded(stateIndex) == tryRevert(stateIndex)

\* a click on the revert button of state stateIndex
revertToState(stateIndex) ==
  IF isBusy THEN rejectRevert(stateIndex) ELSE tryRevert(stateIndex)

\* the buttons a user can click
Clickable == { revertActionEntries[i].stateIndex :
                 i \in { j \in 1..Len(revertActionEntries) : ~revertActionEntries[j].disabled } }

(* ---------------------- frame loop and pointer input ------------------- *)

\* a variant of updateObject whose catch block logs and deletes nothing
updateObjectKeeping(object) ==
  CASE object.update = "spin" -> [object EXCEPT !.phase = 1 - @]
    [] OTHER -> object

\* the visitor of scene.traverse in frame: an update function is called; one
\* that throws is deleted from userData
updateObject(object) ==
  CASE object.update = "spin" -> [object EXCEPT !.phase = 1 - @]
    [] object.update = "crash" -> [object EXCEPT !.update = "none"]
    [] OTHER -> object

\* the children whose userData.update is a function
Attached(children) == { i \in 1..Len(children) : children[i].update # "none" }

\* the children whose update function throws when it is called
Throwing(children) == { i \in 1..Len(children) : children[i].update = "crash" }

\* a variant of traverseUpdate without the try around the call: the first
\* update function that throws ends the traversal
traverseAborting(children) ==
  LET stop == IF Throwing(children) = {} THEN Len(children) + 1
              ELSE CHOOSE i \in Throwing(children) :
                     \A j \in Throwing(children) : i <= j
  IN [children |-> [i \in 1..Len(children) |->
                      IF i < stop THEN updateObject(children[i]) ELSE children[i]],
      called |-> { i \in Attached(children) : i <= stop },
      threw |-> { i \in Throwing(children) : i = stop }]

\* scene.traverse with the visitor of frame: the children it leaves, those
\* whose update function it called and those whose call threw
traverseUpdate(children) ==
  [children |-> [i \in 1..Len(children) |-> updateObject(children[i])],
   called |-> Attached(children),
   threw |-> Throwing(children)]

\* a variant of frame that waits while a submission is in flight
frameWhenIdle ==
  LET u == controlsUpdate(camera, controls)
      t == traverseUpdate(scene.children)
  IN /\ ~disposed
     /\ ~isBusy
     /\ scene' = [scene EXCEPT !.children = t.children]
     /\ camera' = u.camera
     /\ controls' = u.controls
     /\ last' = Call("frame", Some([called |-> t.called, threw |-> t.threw]),
                     "rendered", <<>>, 0)
     /\ UNCHANGED << sceneStateStack, activeStateIndex, isBusy, awaiting,
                     revertActionEntries, disposed, globalThis >>

\* a variant of frame that runs whether or not dispose was called: the
\* frame requested before dispose is neither cancelled nor stopped at its
\* first statement
frameAfterDispose ==
  LET u == controlsUpdate(camera, controls)
      t == traverseUpdate(scene.children)
  IN /\ scene' = [scene EXCEPT !.children = t.children]
     /\ camera' = u.camera
     /\ controls' = u.controls
     /\ last' = Call("frame", Some([called |-> t.called, threw |-> t.threw]),
                     "rendered", <<>>, 0)
     /\ UNCHANGED << sceneStateStack, activeStateIndex, isBusy, awaiting,
                     revertActionEntries, disposed, globalThis >>

\* one animation frame: the update functions, controls.update(), render, and
\* the request for the next frame; arg tells the objects whose update function
\* was called and those whose call threw
frame ==
  LET u == controlsUpdate(camera, controls)
      t == traverseUpdate(scene.children)
  IN
  /\ ~disposed
  /\ scene' = [scene EXCEPT !.children = t.children]
  /\ camera' = u.camera
  /\ controls' = u.controls
  /\ last' = Call("frame", Some([called |-> t.called, threw |-> t.threw]),
                  "rendered", <<>>, 0)
  /\ UNCHANGED << sceneStateStack, activeStateIndex, isBusy, awaiting,
                  revertActionEntries, disposed, globalThis >>

\* a pointer drag on the canvas: OrbitControls adds the rotation to
\* sphericalDelta and calls update()
pointerDrag ==
  /\ controls.enabled
  /\ LET u == controlsUpdate(camera, [controls EXCEPT !.delta = DragAngle]) IN
     /\ camera' = u.camera
     /\ controls' = u.controls
  /\ last' = Call("pointermove", None, "orbited", <<>>, 0)
  /\ UNCHANGED << sceneStateStack, activeStateIndex, isBusy, awaiting,
                  revertActionEntries, scene, disposed, globalThis >>

(* ---------------------- specification ---------------------------------- *)

\* submissions, revert clicks and frames
Next ==
  \/ \E page \in PageInputs : handleSubmit(page) /\ UNCHANGED << history, appended, task, server >>
  \/ \E responseText \in Responses : sendMessageResolved(responseText, MaxNodes) /\ UNCHANGED << history, appended, task, server >>
  \/ sendMessageRejected /\ UNCHANGED << history, appended, task, server >>
  \/ \E stateIndex \in Clickable : revertToState(stateIndex) /\ UNCHANGED << history, appended, task, server >>
  \/ frame /\ UNCHANGED << history, appended, task, server >>

Spec == Init /\ [][Next]_vars

\* the same with pointer drags on the canvas
NextView ==
  \/ \E page \in PageInputs : handleSubmit(page) /\ UNCHANGED << history, appended, task, server >>
  \/ \E responseText \in Responses : sendMessageResolved(responseText, MaxViewNodes) /\ UNCHANGED << history, appended, task, server >>
  \/ sendMessageRejected /\ UNCHANGED << history, appended, task, server >>
  \/ \E stateIndex \in Clickable : revertToState(stateIndex) /\ UNCHANGED << history, appended, task, server >>
  \/ frame /\ UNCHANGED << history, appended, task, server >>
  \/ pointerDrag /\ UNCHANGED << history, appended, task, server >>

SpecView == Init /\ [][NextView]_vars

(* ====================== claims ========================================= *)

\* the error lines among the lines a handler added to the terminal
ErrorLines(lines) == { i \in 1..Len(lines) : lines[i].role = "error" }

\* C1: a revert clicked while a submission is in flight adds one error line and
\* leaves the version tree, the current index, the scene, the camera and the
\* busy flag as they were; no script is executed
C1_RevertWhileBusyRejected ==
  [][ (isBusy /\ last'.op = "revertToState")
        => /\ Cardinality(ErrorLines(last'.lines)) = 1
           /\ last'.executions = 0
           /\ UNCHANGED << sceneStateStack, activeStateIndex, scene, camera, controls,
                           isBusy, awaiting, revertActionEntries >> ]_vars

\* a revert of a recorded state, away from the current one, was clicked while busy
C1_Witness ==
  /\ isBusy
  /\ last.op = "revertToState"
  /\ last.arg # activeStateIndex
  /\ Len(sceneStateStack) > 2

\* C2 as stated: a submit made while busy is answered with an error and leaves
\* the version tree as it was
C2_SubmitWhileBusyReportsError ==
  [][ (isBusy /\ last'.op = "handleSubmit")
        => /\ Cardinality(ErrorLines(last'.lines)) >= 1
           /\ UNCHANGED sceneStateStack ]_vars

\* C2, amended: a submit made while busy is ignored without a word: no line is
\* added to the terminal, no request is started, and the version tree, the
\* current index, the scene, the view and the busy flag stay as they were
C2_SubmitWhileBusyIgnored ==
  [][ (isBusy /\ last'.op = "handleSubmit")
        => /\ last'.lines = <<>>
           /\ UNCHANGED << sceneStateStack, activeStateIndex, scene, camera, controls,
                           isBusy, awaiting, revertActionEntries >> ]_vars

\* a submit was made while the answer to an earlier one was awaited
C2_Witness ==
  /\ isBusy
  /\ awaiting
  /\ last.op = "handleSubmit"
  /\ last.lines = <<>>

\* the step is the continuation of handleSubmit on an answer holding a script
ScriptArrives == awaiting /\ last'.op = "sendMessage" /\ last'.arg.some

\* what executeCode does with the script of the answer of this step
Execution == executeCode(last'.arg.val, [scene |-> scene, camera |-> camera])

\* C3: when the script of an answer runs without throwing, exactly one node is
\* pushed; its index is the former length of the stack, its script the
\* extracted one, its parent the index that was current; it becomes current
C3_AppliedScriptAppendsNode ==
  [][ (ScriptArrives /\ ~Execution.threw)
        => /\ Len(sceneStateStack') = Len(sceneStateStack) + 1
           /\ SubSeq(sceneStateStack', 1, Len(sceneStateStack)) = sceneStateStack
           /\ sceneStateStack'[Len(sceneStateStack) + 1].code = last'.arg
           /\ sceneStateStack'[Len(sceneStateStack) + 1].parentIndex = Some(activeStateIndex)
           /\ activeStateIndex' = Len(sceneStateStack) ]_vars

\* a script was applied on a node that is not the last one pushed
C3_Witness ==
  /\ last.op = "sendMessage"
  /\ last.outcome = "applied"
  /\ activeStateIndex = Len(sceneStateStack) - 1
  /\ sceneStateStack[activeStateIndex + 1].parentIndex.val < activeStateIndex - 1

\* C4: when the script of an answer throws, no node is pushed, the current
\* index stays, one error line and nothing else is shown, executeCode was called
\* once, and the controller is idle again
C4_FailedScriptNotRecorded ==
  [][ (ScriptArrives /\ Execution.threw)
        => /\ UNCHANGED << sceneStateStack, activeStateIndex, revertActionEntries >>
           /\ Len(last'.lines) = 1
           /\ Cardinality(ErrorLines(last'.lines)) = 1
           /\ last'.executions = 1
           /\ ~isBusy'
           /\ ~awaiting' ]_vars

\* a script threw after it had added a cube to a scene with recorded states
C4_Witness ==
  /\ last.op = "sendMessage"
  /\ last.outcome = "failed"
  /\ Len(sceneStateStack) > 1
  /\ Len(scene.children) > Len(createScene.children) + 1
  /\ ~isBusy

\* C5: the version tree is well formed: node 0 has no script and no parent,
\* every other node has a parent of smaller index and a script that is not
\* empty once trimmed
C5_TreeWellFormed ==
  /\ Len(sceneStateStack) >= 1
  /\ sceneStateStack[1].code = None
  /\ sceneStateStack[1].parentIndex = None
  /\ \A id \in 1..(Len(sceneStateStack) - 1) :
       LET node == sceneStateStack[id + 1] IN
       /\ node.parentIndex.some
       /\ node.parentIndex.val >= 0
       /\ node.parentIndex.val < id
       /\ node.code.some
       /\ Trim(node.code.val) # <<>>

\* the tree holds a branch: two nodes with the same parent
C5_Witness ==
  \E a, b \in 1..(Len(sceneStateStack) - 1) :
    /\ a < b
    /\ sceneStateStack[a + 1].parentIndex = sceneStateStack[b + 1].parentIndex

\* C6: the version tree is append-only: every step keeps the nodes there are,
\* unchanged and in place, and the one step that changes the stack is the
\* application of a script that did not throw, which adds one node
C6_AppendOnly ==
  [][ /\ Len(sceneStateStack') >= Len(sceneStateStack)
      /\ SubSeq(sceneStateStack', 1, Len(sceneStateStack)) = sceneStateStack
      /\ (sceneStateStack' # sceneStateStack
            => /\ Len(sceneStateStack') = Len(sceneStateStack) + 1
               /\ ScriptArrives
               /\ ~Execution.threw) ]_vars

\* a revert to a node that is not the last one has completed
C6_Witness ==
  /\ last.op = "revertToState"
  /\ last.outcome = "reverted"
  /\ activeStateIndex < Len(sceneStateStack) - 1
  /\ Len(sceneStateStack) = MaxNodes

\* the scripts on the parent chain from the root to node id, oldest first
RECURSIVE ScriptsTo(_, _)
ScriptsTo(stack, id) ==
  IF id = 0 THEN <<>>
  ELSE ScriptsTo(stack, stack[id + 1].parentIndex.val) \o <<stack[id + 1].code.val>>

\* the step is a revert clicked while idle
RevertIssued == ~isBusy /\ last'.op = "revertToState"

\* C7 as stated: a revert of a node of the stack, clicked while idle, succeeds:
\* nothing is reported as failed and the node becomes the current one
C7_EveryNodeRevertable ==
  [][ (RevertIssued /\ last'.arg < Len(sceneStateStack))
        => /\ ErrorLines(last'.lines) = {}
           /\ activeStateIndex' = last'.arg ]_vars

\* the scene a replay of the scripts of node id from the pristine base gives
RECURSIVE ReplayFrom(_, _)
ReplayFrom(scripts, ctx) ==
  IF scripts = <<>> THEN ctx
  ELSE ReplayFrom(Tail(scripts), executeCode(Head(scripts), ctx).ctx)

PristineReplay(stack, id, cam) ==
  ReplayFrom(ScriptsTo(stack, id), [scene |-> createScene, camera |-> cam]).scene

\* C8 as stated: after a revert that completed, the scene is the base scene
\* with the scripts of the target's chain run on it, oldest first, whatever
\* failed scripts had left in the live scene, and the target is current
C8_RevertEqualsReplayFromBase ==
  [][ (RevertIssued /\ ErrorLines(last'.lines) = {})
        => /\ scene' = PristineReplay(sceneStateStack, last'.arg, camera)
           /\ activeStateIndex' = last'.arg ]_vars

\* C10: the path of a node pushed on parent p with script s is the path of p
\* followed by s
C10_PathExtendsParentPath ==
  [][ (ScriptArrives /\ ~Execution.threw)
        => LET new == collectStateCodePath(sceneStateStack', Len(sceneStateStack))
               old == collectStateCodePath(sceneStateStack, activeStateIndex)
           IN /\ ~new.threw
              /\ ~old.threw
              /\ new.codePath = old.codePath \o <<last'.arg.val>> ]_vars

\* a script was applied after a revert to node 1 away from node 2: the new
\* node's path leaves out the script of node 2
C10_Witness ==
  /\ Len(sceneStateStack) = 4
  /\ activeStateIndex = 3
  /\ last.op = "sendMessage"
  /\ sceneStateStack[3].parentIndex = Some(1)
  /\ sceneStateStack[4].parentIndex = Some(1)
  /\ sceneStateStack[3].code # sceneStateStack[4].code
  /\ collectStateCodePath(sceneStateStack, 3).codePath
       = <<sceneStateStack[2].code.val, sceneStateStack[4].code.val>>

\* C9 as stated: right after a revert that completed, captureViewState gives
\* the view state stored in the target node
C9_RevertRestoresViewState ==
  (last.op = "revertToState" /\ last.outcome = "reverted")
    => captureViewState(camera, controls).viewState
         = sceneStateStack[last.arg + 1].viewState

(* ====================== the branching scenario ========================= *)

\* page inputs with which handleSubmit sends the request
Sendable ==
  { page \in PageInputs :
      /\ page.screenshot
      /\ page.provider = "env" \/ (page.provider = "key" /\ page.apiKey # "") }

\* answers whose scripts the scenario draws A, B and C from
ScenarioResponses ==
  { <<Fence, "js", " ", "addCube", " ", Fence>>,
    <<"Done", " ", Fence, "paintCube", Fence, " ", Fence, "js", " ", "moveCam", Fence>>,
    <<Fence, "fog", Fence>>,
    <<Fence, "threejs", "\n\n", "addCube", " ", "spinCube", Fence>> }

\* the answer holds a script that runs on the live scene without throwing
Succeeds(responseText) ==
  LET code == extractCode(responseText) IN
  /\ code.some
  /\ ~executeCode(code.val, [scene |-> scene, camera |-> camera]).threw

\* submit A on the root, submit B on node 1, submit C after the revert
scenarioSubmit ==
  /\ ~isBusy
  /\ \/ Len(sceneStateStack) = 1
     \/ Len(sceneStateStack) = 2
     \/ Len(sceneStateStack) = 3 /\ activeStateIndex = 1
  /\ \E page \in Sendable : handleSubmit(page)

\* the answer to a submit of the scenario: a script that succeeds
scenarioAnswer ==
  \E responseText \in ScenarioResponses :
    /\ Succeeds(responseText)
    /\ sendMessageResolved(responseText, MaxNodes)

\* revert(1), once B is applied
scenarioRevert ==
  /\ ~isBusy
  /\ Len(sceneStateStack) = 3
  /\ activeStateIndex = 2
  /\ revertToState(1)

NextScenario ==
  \/ scenarioSubmit /\ UNCHANGED << history, appended, task, server >>
  \/ scenarioAnswer /\ UNCHANGED << history, appended, task, server >>
  \/ scenarioRevert /\ UNCHANGED << history, appended, task, server >>
  \/ frame /\ UNCHANGED << history, appended, task, server >>

SpecScenario == Init /\ [][NextScenario]_vars

\* C11: from the root alone, submit A, submit B, revert(1), submit C, all
\* scripts succeeding, give the tree 0, 1 (parent 0), 2 (parent 1),
\* 3 (parent 1); the current index is 1 after A, 2 after B, 1 after the revert
\* and 3 at the end; the path of node 3 is A, C; node 2 keeps its revert button
\* and its path A, B, which still replays
C11_BranchAfterRevert ==
  LET n == Len(sceneStateStack)
      Parent(id) == sceneStateStack[id + 1].parentIndex
      Script(id) == sceneStateStack[id + 1].code.val
      Path(id) == collectStateCodePath(sceneStateStack, id)
  IN /\ n <= 4
     /\ (last.op = "sendMessage"
           => /\ last.outcome = "applied"
              /\ sceneStateStack[n].code = last.arg
              /\ activeStateIndex = n - 1)
     /\ (n = 1 => activeStateIndex = 0)
     /\ (n >= 2 => Parent(1) = Some(0))
     /\ (n = 2 => activeStateIndex = 1)
     /\ (n >= 3 => Parent(2) = Some(1))
     /\ (n = 3 => /\ activeStateIndex \in {1, 2}
                  /\ (last.op = "revertToState"
                        => last.outcome = "reverted" /\ activeStateIndex = 1)
                  /\ (isBusy => activeStateIndex = 1))
     /\ (n = 4 => /\ Parent(3) = Some(1)
                  /\ activeStateIndex = 3
                  /\ ~Path(3).threw
                  /\ Path(3).codePath = <<Script(1), Script(3)>>
                  /\ ~Path(2).threw
                  /\ Path(2).codePath = <<Script(1), Script(2)>>
                  /\ 2 \in Clickable
                  /\ ~restoreSceneToStateIndex(sceneStateStack, 2, scene, camera,
                                               controls).threw)

\* the scenario has run to its end with three different scripts A, B and C
C11_Witness ==
  /\ Len(sceneStateStack) = 4
  /\ last.op = "sendMessage"
  /\ sceneStateStack[2].code # sceneStateStack[3].code
  /\ sceneStateStack[2].code # sceneStateStack[4].code
  /\ sceneStateStack[3].code # sceneStateStack[4].code

(* ====================== the functions called on their own ============== *)

\* longest sceneStateStack explored where the functions are called directly
MaxCallNodes == 3

\* the indexes revertToState is called with: every node, and indexes below
\* and above the stack
StateIndexes == -1..MaxCallNodes

\* the values executeCode is called with
CallScripts == { <<>>, <<" ">>, <<"\n\n", " ">>, NotAString, <<"fog">> }

\* executeCode(code, sceneContext), its result left in the live scene; the
\* outcome is the message of the error thrown
executeCodeCall(code) ==
  LET r == executeCode(code, [scene |-> scene, camera |-> camera]) IN
  /\ Len(r.ctx.scene.children) <= MaxChildren
  /\ scene' = r.ctx.scene
  /\ camera' = r.ctx.camera
  /\ last' = Call("executeCode", Some(code),
                  IF r.threw THEN r.error ELSE "returned", <<>>, 1)
  /\ UNCHANGED << sceneStateStack, activeStateIndex, isBusy, awaiting,
                  revertActionEntries, controls, disposed >>
  /\ globalThis' = IF wrote(r.ctx) THEN "written" ELSE globalThis

NextCalls ==
  \/ \E page \in PageInputs : handleSubmit(page) /\ UNCHANGED << history, appended, task, server >>
  \/ \E responseText \in Responses : sendMessageResolved(responseText, MaxCallNodes) /\ UNCHANGED << history, appended, task, server >>
  \/ sendMessageRejected /\ UNCHANGED << history, appended, task, server >>
  \/ \E stateIndex \in StateIndexes : revertToState(stateIndex) /\ UNCHANGED << history, appended, task, server >>
  \/ \E code \in CallScripts : executeCodeCall(code) /\ UNCHANGED << history, appended, task, server >>
  \/ frame /\ UNCHANGED << history, appended, task, server >>

SpecCalls == Init /\ [][NextCalls]_vars

\* C12: revertToState called while idle with an index below 0 or not below
\* the length of the stack reports "Revert failed: State is not available."
\* as its one line, executes nothing, and leaves the scene, the camera, the
\* controls, the stack, the current index and the buttons as they were
C12_UnknownStateRejected ==
  [][ (~isBusy /\ last'.op = "revertToState"
         /\ (last'.arg < 0 \/ last'.arg >= Len(sceneStateStack)))
        => /\ last'.lines = <<Line("error", "Revert failed: is not available")>>
           /\ last'.executions = 0
           /\ UNCHANGED << sceneStateStack, activeStateIndex, scene, camera, controls,
                           revertActionEntries, isBusy, awaiting >> ]_vars

\* a revert to an index past the stack was refused while the live scene held
\* objects a reset would have removed
C12_Witness ==
  /\ ~isBusy
  /\ last.op = "revertToState"
  /\ last.outcome = "failed"
  /\ last.arg >= Len(sceneStateStack)
  /\ Len(sceneStateStack) > 1
  /\ Len(scene.children) > Len(createScene.children)

\* the argument is not a text, or is empty once trimmed
EmptyScript(code) == code = NotAString \/ Trim(code) = <<>>

\* C18: executeCode called with a script that is empty, blank or not a text
\* throws "No executable code was provided." and runs nothing: the scene, the
\* camera and the stack stay as they were; and the script handleSubmit passes
\* to executeCode is never such a one: it is a text, trimmed and not empty
C18_EmptyScriptRejected ==
  [][ /\ (last'.op = "executeCode" /\ EmptyScript(last'.arg.val))
           => /\ last'.outcome = "No executable code was provided."
              /\ UNCHANGED << scene, camera, controls, sceneStateStack,
                              activeStateIndex >>
      /\ (last'.op = "sendMessage" /\ last'.executions > 0)
           => /\ last'.arg.some
              /\ ~EmptyScript(last'.arg.val)
              /\ Trim(last'.arg.val) = last'.arg.val
              /\ last'.outcome \in {"applied", "failed"}
              /\ last'.lines # <<Line("error", "Code execution failed: "
                                                 \o "No executable code was provided.")>>
    ]_vars

\* executeCode was called with a blank script on a scene with recorded states
C18_Witness ==
  /\ last.op = "executeCode"
  /\ last.arg.val # <<>>
  /\ last.arg.val # NotAString
  /\ Trim(last.arg.val) = <<>>
  /\ last.outcome = "No executable code was provided."
  /\ Len(sceneStateStack) > 1

(* ====================== update functions and the frame loop ============ *)

\* longest sceneStateStack explored where scripts attach update functions
MaxFrameNodes == 3

\* answers whose scripts add, rename and remove the cube and attach update
\* functions: the second leaves a box whose update throws and, after it in
\* the traversal, a cube whose update spins it
FrameResponses ==
  { <<Fence, "addCube", Fence>>,
    <<Fence, "addCube", " ", "shakeCube", " ", "renameCube", " ", "addCube", " ",
      "spinCube", Fence>>,
    <<Fence, "renameCube", Fence>>,
    <<Fence, "removeCube", Fence>>,
    <<Fence, "addCube", " ", "boom", Fence>>,
    <<"Hello">> }

\* window beforeunload: sceneContext.dispose() cancels the frame requested
dispose ==
  /\ ~disposed
  /\ disposed' = TRUE
  /\ last' = Call("dispose", None, "disposed", <<>>, 0)
  /\ UNCHANGED << sceneStateStack, activeStateIndex, isBusy, awaiting,
                  revertActionEntries, scene, camera, controls, globalThis >>

NextFrames ==
  \/ \E page \in Sendable : handleSubmit(page) /\ UNCHANGED << history, appended, task, server >>
  \/ \E responseText \in FrameResponses : sendMessageResolved(responseText, MaxFrameNodes) /\ UNCHANGED << history, appended, task, server >>
  \/ sendMessageRejected /\ UNCHANGED << history, appended, task, server >>
  \/ \E stateIndex \in Clickable : revertToState(stateIndex) /\ UNCHANGED << history, appended, task, server >>
  \/ frame /\ UNCHANGED << history, appended, task, server >>
  \/ dispose /\ UNCHANGED << history, appended, task, server >>

SpecFrames == Init /\ [][NextFrames]_vars

\* the names of the objects of the scene, in the order of scene.children
Names(children) == [i \in 1..Len(children) |-> children[i].name]

\* every statement of every script adds, renames or removes a named object
NamesOnly(scripts) ==
  \A k \in 1..Len(scripts) : \A j \in 1..Len(scripts[k]) :
    scripts[k][j] \in {"addCube", "renameCube", "removeCube"} \cup Whitespace

\* C13: a revert to a node whose scripts only add, rename or remove named
\* objects, clicked right after a revert to the same node, leaves the objects
\* of the scene, by name and number, as the first revert left them
C13_ReplayIdempotent ==
  [][ (/\ RevertIssued
       /\ last.op = "revertToState"
       /\ last.outcome # "busy"
       /\ last.arg = last'.arg
       /\ NamesOnly(collectStateCodePath(sceneStateStack, last'.arg).codePath))
        => /\ Names(scene'.children) = Names(scene.children)
           /\ last'.outcome = last.outcome
           /\ last'.executions = last.executions ]_vars

\* a revert has replayed two scripts, one that adds the cube and one that
\* renames or removes it
C13_Witness ==
  /\ last.op = "revertToState"
  /\ last.outcome = "reverted"
  /\ last.executions = 2
  /\ LET path == collectStateCodePath(sceneStateStack, last.arg).codePath IN
     /\ Len(path) = 2
     /\ NamesOnly(path)
     /\ path[2] \in {<<"renameCube">>, <<"removeCube">>}

JustDetached ==
  IF last.op = "frame"
  THEN { scene.children[i].name : i \in last.arg.val.threw }
  ELSE {}

\* the names of the objects that carry an update function that throws
ThrowingNames(children) == { children[i].name : i \in Throwing(children) }

\* C16 as stated: right after a frame has detached update functions that
\* threw, no step that is not the execution of a new script from the model,
\* a revert included, leaves an object of those names with that function
\* attached again
C16_NeverReattachedEvenByRevert ==
  [][ last'.op # "sendMessage"
        => ThrowingNames(scene'.children) \cap JustDetached = {} ]_vars

\* C16, amended: no step that executes no script attaches an update function:
\* over a frame, a submit, an answer without script or a rejected request the
\* objects stay in place, and one that has no update function, or whose
\* update function threw in this frame, has none afterwards
C16_NotReattachedWithoutScript ==
  [][ last'.executions = 0
        => LET detached == IF last'.op = "frame" THEN last'.arg.val.threw ELSE {}
           IN /\ Names(scene'.children) = Names(scene.children)
              /\ \A i \in 1..Len(scene.children) :
                   (scene.children[i].update = "none" \/ i \in detached)
                     => scene'.children[i].update = "none" ]_vars

\* an answer without script arrived while an object, which the scripts of the
\* current node give an update function that throws, had lost it in a frame
C16_Witness ==
  /\ last.op = "sendMessage"
  /\ last.outcome = "plain"
  /\ LET replayed == PristineReplay(sceneStateStack, activeStateIndex, camera).children
     IN /\ Names(replayed) = Names(scene.children)
        /\ \E i \in Throwing(replayed) : scene.children[i].update = "none"

requestSettles ==
  \/ \E responseText \in Responses : sendMessageResolved(responseText, MaxNodes) /\ UNCHANGED << history, appended, task, server >>
  \/ sendMessageRejected /\ UNCHANGED << history, appended, task, server >>

\* Spec where a request that was sent is settled in the end
SpecLive == Spec /\ WF_vars(requestSettles)

\* C14: when the answer holds no script, the one line shown is the text of the
\* answer (or "No code block returned." for an empty one); nothing is
\* executed; the stack, the current index, the scene, the camera and the
\* revert buttons stay as they were
C14_NoScriptLeavesTree ==
  [][ (awaiting /\ last'.op = "sendMessage" /\ ~last'.arg.some
         /\ last'.outcome # "rejected")
        => /\ \E responseText \in Responses :
                /\ extractCode(responseText) = None
                /\ last'.lines = <<Line("assistant", Shown(responseText))>>
           /\ last'.executions = 0
           /\ UNCHANGED << sceneStateStack, activeStateIndex, scene, camera, controls,
                           revertActionEntries >> ]_vars

\* a prose answer was shown while the tree held recorded states
C14_Witness ==
  /\ last.op = "sendMessage"
  /\ last.outcome = "plain"
  /\ last.lines = <<Line("assistant", <<"Hello">>)>>
  /\ Len(sceneStateStack) > 1
  /\ ~isBusy

C20_SingleInFlight ==
  /\ [](awaiting => isBusy)
  /\ [][ awaiting
           => /\ (last'.op = "handleSubmit"
                    => last'.outcome = "ignored" /\ awaiting' /\ isBusy')
              /\ (last'.op = "revertToState"
                    => /\ last'.executions = 0
                       /\ scene' = scene
                       /\ awaiting'
                       /\ isBusy')
              /\ (last'.op = "frame" => awaiting' /\ isBusy')
              /\ (last'.executions > 0
                    => /\ last'.op = "sendMessage"
                       /\ last'.executions = 1
                       /\ ~awaiting'
                       /\ ~isBusy') ]_vars

\* a second submit was made while the answer to the first was awaited, on a
\* tree with recorded states
C20_Witness ==
  /\ awaiting
  /\ last.op = "handleSubmit"
  /\ last.outcome = "ignored"
  /\ Len(sceneStateStack) > 2
  /\ Clickable # {}

\* what statements that do not throw leave of the bindings, run in order
RECURSIVE Effects(_, _)
Effects(stmts, ctx) ==
  IF stmts = <<>> THEN ctx
  ELSE Effects(Tail(stmts),
               IF Head(stmts) \in Whitespace THEN ctx
               ELSE runStatement(Head(stmts), ctx).ctx)

\* statement k of the script is the first that throws on the live scene
FirstThrowAt(code, k) ==
  LET live == [scene |-> scene, camera |-> camera] IN
  /\ code[k] \notin Whitespace
  /\ runStatement(code[k], Effects(SubSeq(code, 1, k - 1), live)).threw
  /\ \A j \in 1..(k - 1) :
        code[j] \in Whitespace
        \/ ~runStatement(code[j], Effects(SubSeq(code, 1, j - 1), live)).threw

\* C21: when the script of an answer throws at one of its statements, what the
\* statements before it did to the scene and the camera stays done, nothing
\* is rolled back, and the version tree and the current index are unchanged
\* (so the live scene can differ from the replay of the current node's path)
C21_FailedScriptKeepsPartialEffects ==
  [][ (ScriptArrives /\ last'.outcome = "failed")
        => /\ UNCHANGED << sceneStateStack, activeStateIndex >>
           /\ \A k \in 1..Len(last'.arg.val) :
                 (Parses(last'.arg.val) /\ FirstThrowAt(last'.arg.val, k))
                   => LET done == Effects(SubSeq(last'.arg.val, 1, k - 1),
                                          [scene |-> scene, camera |-> camera])
                      IN scene' = done.scene /\ camera' = done.camera ]_vars

\* a script failed on the root after it added to the scene: the live scene is
\* not the replay of the current node's path
C21_Witness ==
  /\ last.op = "sendMessage" /\ last.outcome = "failed"
  /\ Len(sceneStateStack) = 1 /\ activeStateIndex = 0
  /\ scene # createScene
  /\ scene # PristineReplay(sceneStateStack, activeStateIndex, camera)

(* ====================== conversation history =========================== *)

\* main.js: history.length > 30
HistoryLimit == 30

\* entries appended over a session, at most
MaxAppended == 34

\* entries appended while the user works on the scene (script answers and
\* reverts); after them the user only talks with the model
MaxWorked == 6

\* nodes of the stack in the sessions where the history is followed
MaxHistoryNodes == 3

\* a variant of appendHistory that lets the newest entries go when the
\* history is full
appendHistoryKeepingOldest(h, role, content) ==
  LET pushed == Append(h, [role |-> role, content |-> content]) IN
  IF Len(pushed) > HistoryLimit THEN SubSeq(pushed, 1, HistoryLimit) ELSE pushed

\* history.push({ role, content }); if (history.length > 30)
\* history.splice(0, history.length - 30)
appendHistory(h, role, content) ==
  LET pushed == Append(h, [role |-> role, content |-> content]) IN
  IF Len(pushed) > HistoryLimit
  THEN SubSeq(pushed, Len(pushed) - HistoryLimit + 1, Len(pushed))
  ELSE pushed

\* ${stateIndex} in a template literal
StateNumber(stateIndex) == <<"0", "1", "2", "3", "4", "5">>[stateIndex + 1]

\* the answers of a working session: a script that adds a cube and throws, one
\* that turns the scene and throws, one that sets the fog and paints the
\* cube, one that adds a cube; and a plain answer
WorkResponses ==
  { <<Fence, "addCube", " ", "boom", Fence>>,
    <<Fence, "tilt", " ", "fog", " ", "boom", Fence>>,
    <<"Done", " ", Fence, "fog", Fence, " ", Fence, "js", " ", "paintCube", Fence>>,
    <<Fence, "js", " ", "addCube", " ", Fence>> }

TalkResponses == { <<"Hello">> }

\* a variant of answered that appends to the history after the script was
\* applied, and not otherwise
answeredRecordingApplied(responseText) ==
  /\ appended < MaxAppended
  /\ sendMessageResolved(responseText, MaxHistoryNodes)
  /\ history' =
       IF Succeeds(responseText)
       THEN appendHistory(appendHistory(history, "user", <<"message">>),
                          "assistant", responseText)
       ELSE history
  /\ appended' = IF Succeeds(responseText) THEN appended + 2 ELSE appended

\* handleSubmit from the point where sendMessage resolved, with what it
\* appends to the history before it looks at the script
answered(responseText) ==
  /\ appended < MaxAppended
  /\ sendMessageResolved(responseText, MaxHistoryNodes)
  /\ history' = appendHistory(appendHistory(history, "user", <<"message">>),
                              "assistant", responseText)
  /\ appended' = appended + 2

\* a click on a revert button, with what a completed revert appends
reverted(stateIndex) ==
  LET done == /\ ~isBusy
              /\ ~restoreSceneToStateIndex(sceneStateStack, stateIndex, scene,
                                           camera, controls).threw
  IN /\ appended < MaxAppended
     /\ revertToState(stateIndex)
     /\ history' =
          IF done
          THEN appendHistory(
                 appendHistory(history, "user",
                               <<"Revert to scene state #", StateNumber(stateIndex), ".">>),
                 "assistant", <<"Reverted to scene state #", StateNumber(stateIndex), ".">>)
          ELSE history
     /\ appended' = IF done THEN appended + 2 ELSE appended

\* the handlers with the history they keep
NextHistory ==
  \/ \E page \in PageInputs : handleSubmit(page) /\ UNCHANGED << history, appended, task, server >>
  \/ \E responseText \in WorkResponses :
       appended < MaxWorked /\ answered(responseText) /\ UNCHANGED << task, server >>
  \/ \E responseText \in TalkResponses : answered(responseText) /\ UNCHANGED << task, server >>
  \/ sendMessageRejected /\ UNCHANGED << history, appended, task, server >>
  \/ \E stateIndex \in Clickable :
       appended < MaxWorked /\ reverted(stateIndex) /\ UNCHANGED << task, server >>

SpecHistory == Init /\ [][NextHistory]_vars

\* the last n entries of a sequence
LastN(h, n) == IF Len(h) <= n THEN h ELSE SubSeq(h, Len(h) - n + 1, Len(h))

\* the step appended to the history
Appends == appended' # appended

\* C22: the history never holds more than 30 entries and holds all that were
\* appended until there are 30; a step that appends adds a user entry and an
\* assistant entry at the end, and what is kept is the last 30 entries of the
\* former history followed by the two, in that order
C22_HistoryKeepsMostRecent ==
  /\ [](/\ Len(history) <= HistoryLimit
        /\ Len(history) = IF appended < HistoryLimit THEN appended ELSE HistoryLimit)
  /\ [][ Appends
           => /\ Len(history') >= 2
              /\ history'[Len(history') - 1].role = "user"
              /\ history'[Len(history')].role = "assistant"
              /\ history' = LastN(history \o LastN(history', 2), HistoryLimit) ]_vars

\* more than 30 entries were appended; the answer whose script made node 1
\* was among the first and is no longer in the history
C22_Witness ==
  /\ appended > HistoryLimit
  /\ Len(sceneStateStack) > 1
  /\ Len(history) = HistoryLimit
  /\ \A i \in 1..Len(history) : history[i].content \in {<<"message">>, <<"Hello">>}

\* C23 as stated: what a revert replays and the scene it gives are determined
\* by the version tree alone, the same whatever the conversation history holds
\* (the entries of a failed script, say): the scripts collected for a node are
\* those of its parent chain and the scene of a completed revert is the base
\* scene with them run on it
C23_ReplayFromTreeAlone ==
  [][ (RevertIssued /\ last'.arg < Len(sceneStateStack))
        => /\ collectStateCodePath(sceneStateStack, last'.arg).codePath
                = ScriptsTo(sceneStateStack, last'.arg)
           /\ last'.outcome = "reverted"
                => scene' = PristineReplay(sceneStateStack, last'.arg, camera) ]_vars

\* the part of C23 that holds: the scripts collected for a node are read off
\* the stack alone
C23_PathFromTreeAlone ==
  [][ (RevertIssued /\ last'.arg < Len(sceneStateStack))
        => collectStateCodePath(sceneStateStack, last'.arg).codePath
             = ScriptsTo(sceneStateStack, last'.arg) ]_vars

\* C24: the revert buttons are, in order, one enabled button for each node
\* but the root, bound to the node's id; an applied script adds the button of
\* the node pushed for it, and an answer without a script or with a script
\* that throws adds none
C24_OneRevertActionPerNode ==
  /\ [](revertActionEntries =
          [i \in 1..(Len(sceneStateStack) - 1) |-> [stateIndex |-> i, disabled |-> FALSE]])
  /\ [][ (awaiting /\ last'.op = "sendMessage")
           => IF last'.outcome = "applied"
              THEN revertActionEntries' =
                     Append(revertActionEntries,
                            [stateIndex |-> Len(sceneStateStack), disabled |-> FALSE])
              ELSE revertActionEntries' = revertActionEntries ]_vars

\* two scripts were applied and a third answer failed: two buttons
C24_Witness ==
  /\ last.op = "sendMessage" /\ last.outcome = "failed"
  /\ Len(sceneStateStack) = 3
  /\ Len(revertActionEntries) = 2

(* ====================== scripts and the page =========================== *)

\* nodes of the stack in the sessions whose scripts write to the page
MaxSandboxNodes == 3

\* scripts that stay within the bindings and one that writes a global
SandboxScripts == { <<"fog">>, <<"addCube">>, <<"leak">> }

\* answers whose scripts write a global, one of them before it throws
SandboxResponses ==
  { <<Fence, "addCube", " ", "leak", Fence>>,
    <<Fence, "leak", " ", "boom", Fence>>,
    <<Fence, "fog", Fence>> }

\* the handlers and direct calls of executeCode, with scripts that reach
\* outside the bindings
NextSandbox ==
  \/ \E page \in Sendable : handleSubmit(page) /\ UNCHANGED << history, appended, task, server >>
  \/ \E responseText \in SandboxResponses :
       sendMessageResolved(responseText, MaxSandboxNodes) /\ UNCHANGED << history, appended, task, server >>
  \/ sendMessageRejected /\ UNCHANGED << history, appended, task, server >>
  \/ \E stateIndex \in Clickable : revertToState(stateIndex) /\ UNCHANGED << history, appended, task, server >>
  \/ \E code \in SandboxScripts : executeCodeCall(code) /\ UNCHANGED << history, appended, task, server >>

SpecSandbox == Init /\ [][NextSandbox]_vars

\* C25 as stated: a script run by executeCode reaches the four bindings and
\* nothing else: the call leaves the global object of the page as it was
C25_NothingOutsideTheBindings ==
  [][ last'.op = "executeCode" => globalThis' = globalThis ]_vars

(* ====================== extractCode on its own ========================= *)

\* parts a text is made of, at most
MaxParts == 3

\* the parts of an answer: prose, prose naming a binding, prose with a full
\* stop, blanks, a statement, fenced blocks with and without a language tag,
\* with a tag the pattern does not know, a blank block, a fence never closed
TextParts ==
  { <<"Hello">>, <<"scene">>, <<"Done.">>, <<" ">>, <<"addCube">>,
    <<Fence, "js", " ", "fog", " ", Fence>>,
    <<Fence, "boom", Fence>>,
    <<Fence, "python", " ", "moveCam", Fence>>,
    <<Fence, " ", Fence>>,
    <<Fence>> }

\* the texts of n parts
RECURSIVE TextsOf(_)
TextsOf(n) ==
  IF n = 0 THEN { <<>> }
  ELSE { head \o part : head \in TextsOf(n - 1), part \in TextParts }

\* what extractCode is called with
Texts == UNION { TextsOf(n) : n \in 0..MaxParts } \cup { NotAString }

\* the page as Init leaves it, with a text at hand that extractCode is about
\* to be called with
InitExtract ==
  LET c == captureViewState(createCamera, createControls) IN
  /\ sceneStateStack = << [code |-> None, parentIndex |-> None, viewState |-> c.viewState] >>
  /\ activeStateIndex = 0
  /\ isBusy = FALSE
  /\ awaiting = FALSE
  /\ revertActionEntries = <<>>
  /\ scene = createScene
  /\ camera = c.camera
  /\ controls = c.controls
  /\ disposed = FALSE
  /\ history = <<>>
  /\ appended = 0
  /\ task = [op |-> "none", running |-> FALSE]
  /\ server = NoServer
  /\ globalThis = "pristine"
  /\ \E text \in Texts : last = Call("text", text, "at hand", <<>>, 0)

\* extractCode(text); the call and what it returned
extractCodeCall ==
  /\ last.op = "text"
  /\ last' = Call("extractCode", last.arg, extractCode(last.arg), <<>>, 0)
  /\ UNCHANGED << sceneStateStack, activeStateIndex, isBusy, awaiting,
                  revertActionEntries, scene, camera, controls, disposed,
                  history, appended, task, server, globalThis >>

NextExtract == extractCodeCall

SpecExtract == InitExtract /\ [][NextExtract]_vars

\* the positions of the fences of a text
FencesOf(text) == { i \in 1..Len(text) : text[i] = Fence }

\* the k-th number of a set, counted from the smallest
Nth(S, k) == CHOOSE x \in S : Cardinality({ y \in S : y < x }) = k - 1

\* the k-th fenced block of a text: what stands between the fences 2k-1 and
\* 2k, without the language tag and the blanks around it
Block(text, k) ==
  LET inside == SubSeq(text, Nth(FencesOf(text), 2 * k - 1) + 1,
                       Nth(FencesOf(text), 2 * k) - 1)
  IN Trim(IF inside # <<>> /\ Head(inside) \in LangTags THEN Tail(inside) ELSE inside)

\* the blocks from the k-th on that are not empty, each followed by what
\* separates it from the next
RECURSIVE BlocksFrom(_, _)
BlocksFrom(text, k) ==
  IF 2 * k > Cardinality(FencesOf(text)) THEN <<>>
  ELSE LET rest == BlocksFrom(text, k + 1) IN
       IF Block(text, k) = <<>> THEN rest
       ELSE IF rest = <<>> THEN Block(text, k)
       ELSE Block(text, k) \o <<"\n\n">> \o rest

\* the text names a binding and holds statement punctuation
Resembles(text) ==
  /\ \E i \in 1..Len(text) : text[i] \in NameWords \cup (Statements \ {"boom", "leak"})
  /\ \E i \in 1..Len(text) : text[i] \in Punctuated \cup Statements

\* C26: extractCode returns none for what is not a text and for an empty or
\* blank text; else the fenced blocks that are not empty, in their order,
\* joined by a blank line; else, when there is no such block, the trimmed text
\* if it names a binding and holds statement punctuation, and none if not
C26_ExtractCodeContract ==
  last.op = "extractCode"
    => LET text == last.arg
           blocks == BlocksFrom(text, 1)
       IN last.outcome =
            IF text = NotAString \/ \A i \in 1..Len(text) : text[i] \in Whitespace
            THEN None
            ELSE IF blocks # <<>> THEN Some(blocks)
            ELSE IF Resembles(text) THEN Some(Trim(text))
            ELSE None

\* a text with a blank block and two blocks around prose: the two are joined
C26_Witness ==
  /\ last.op = "extractCode"
  /\ last.arg # NotAString
  /\ Cardinality(FencesOf(last.arg)) = 6
  /\ last.outcome = Some(<<"fog", "\n\n", "boom">>)

\* a text without a block that is taken whole for code
C26_WitnessRaw ==
  /\ last.op = "extractCode"
  /\ last.arg # NotAString
  /\ FencesOf(last.arg) = {}
  /\ last.outcome = Some(last.arg)

\* the controls with the damping flag set to flag
WithDamping(flag) == [controls EXCEPT !.enableDamping = flag]

\* C27: whichever value the damping flag has, captureViewState and
\* restoreViewState (of any stored view state) return with the flag as it
\* was, although the rotation a drag left pending has been applied in full;
\* the view state of a new node is the pose read at its capture, and no
\* later step (drag, frame, script, revert) alters a stored view state
C27_DampingRestoredSnapshotKept ==
  /\ [](\A flag \in BOOLEAN :
          /\ captureViewState(camera, WithDamping(flag)).controls.enableDamping = flag
          /\ captureViewState(camera, WithDamping(flag)).controls.delta = 0
          /\ \A i \in 1..Len(sceneStateStack) :
               LET r == restoreViewState(sceneStateStack[i].viewState, camera,
                                         WithDamping(flag))
               IN r.controls.enableDamping = flag /\ r.controls.delta = 0)
  /\ [](controls.enableDamping)
  /\ [][ /\ \A i \in 1..Len(sceneStateStack) :
              sceneStateStack'[i].viewState = sceneStateStack[i].viewState
         /\ Len(sceneStateStack') > Len(sceneStateStack)
              => sceneStateStack'[Len(sceneStateStack')].viewState
                   = snapshot(camera', controls') ]_vars

\* the view state of the newest node was captured with the camera turned;
\* a drag and frames have since moved the camera on, damping is on and a
\* rotation is pending
C27_Witness ==
  /\ Len(sceneStateStack) > 1
  /\ last.op \in {"pointermove", "frame"}
  /\ sceneStateStack[Len(sceneStateStack)].viewState.camera.theta # 0
  /\ sceneStateStack[Len(sceneStateStack)].viewState.camera # camera
  /\ controls.enableDamping
  /\ controls.delta # 0

\* C28: activeStateIndex is always the id of a node of the stack; a step
\* changes it only when it applies a script, to the id of the node it pushed,
\* or when it completes a revert, to the target of the revert
C28_ActiveIndexValid ==
  /\ [](activeStateIndex \in 0..(Len(sceneStateStack) - 1))
  /\ [][ activeStateIndex' # activeStateIndex
           => \/ /\ ScriptArrives /\ last'.outcome = "applied"
                 /\ Len(sceneStateStack') = Len(sceneStateStack) + 1
                 /\ activeStateIndex' = Len(sceneStateStack)
              \/ /\ RevertIssued /\ last'.outcome = "reverted"
                 /\ ErrorLines(last'.lines) = {}
                 /\ activeStateIndex' = last'.arg ]_vars

\* a revert of an index outside the stack has failed while node 2 was current
C28_Witness ==
  /\ last.op = "revertToState" /\ last.outcome = "failed"
  /\ last.arg \notin 0..(Len(sceneStateStack) - 1)
  /\ activeStateIndex = 2

\* a revert has completed and made an older node current
C28_WitnessReverted ==
  /\ last.op = "revertToState" /\ last.outcome = "reverted"
  /\ activeStateIndex = 1 /\ Len(sceneStateStack) = 3

\* what a scene holds, without what the frame callbacks do to the objects
\* (userData.update and its visible effect)
SceneContent(sc) ==
  [children |-> [i \in 1..Len(sc.children) |->
                   [name |-> sc.children[i].name, color |-> sc.children[i].color]],
   fog |-> sc.fog,
   tilt |-> sc.tilt]

\* the live scene holds what the replay of the current node's path on the
\* base scene gives
AgreesWithReplay ==
  SceneContent(scene) =
    SceneContent(PristineReplay(sceneStateStack, activeStateIndex, camera))

\* C29 as stated: the live scene agrees with the replay of the current node's
\* path when a revert has just completed, and goes on agreeing through every
\* step in which no script and no revert fails
C29_IncrementalEqualsReplay ==
  [][ /\ (RevertIssued /\ last'.outcome = "reverted") => AgreesWithReplay'
      /\ (AgreesWithReplay /\ last'.outcome # "failed") => AgreesWithReplay' ]_vars

\* the part of C29 that holds: the application of a script that does not
\* throw keeps the live scene in agreement with the replay
C29_ApplyingKeepsAgreement ==
  [][ (AgreesWithReplay /\ ScriptArrives /\ last'.outcome = "applied")
        => AgreesWithReplay' ]_vars

\* the step is a revert, clicked while idle, in whose replay a script threw
ReplayThrows ==
  RevertIssued /\ last'.outcome = "failed" /\ last'.executions >= 1

\* C30: when a script throws in the replay of a revert, one error line
\* reports the revert as failed; the stack, the current index, the revert
\* buttons, the controls (the target's view state is not put in place) and
\* the history stay as they were; the scene is the scene reset to its base
\* with the scripts before the throwing one replayed and what the throwing
\* one did before it threw
C30_FailedReplayLeavesResetScene ==
  [][ ReplayThrows
        => LET path == ScriptsTo(sceneStateStack, last'.arg)
               k == last'.executions
               before == ReplayFrom(SubSeq(path, 1, k - 1),
                                    [scene |-> resetSceneToBase(scene), camera |-> camera])
               thrown == executeCode(path[k], before)
           IN /\ Cardinality(ErrorLines(last'.lines)) = 1
              /\ Len(last'.lines) = 1
              /\ UNCHANGED << sceneStateStack, activeStateIndex, revertActionEntries,
                              controls, history, appended, server >>
              /\ thrown.threw
              /\ \A j \in 1..(k - 1) :
                   ~executeCode(path[j],
                                ReplayFrom(SubSeq(path, 1, j - 1),
                                           [scene |-> resetSceneToBase(scene),
                                            camera |-> camera])).threw
              /\ scene' = thrown.ctx.scene
              /\ camera' = thrown.ctx.camera ]_vars

\* the revert of node 1 failed in its replay: the cube a failed script had
\* left is gone, the fog the replayed script set before it threw is there,
\* the history holds the four entries of the two answers and no more
C30_Witness ==
  /\ last.op = "revertToState" /\ last.outcome = "failed" /\ last.executions = 1
  /\ last.arg = 1
  /\ Len(scene.children) = Len(createScene.children)
  /\ scene.fog
  /\ scene # createScene
  /\ Len(history) = 4 /\ appended = 4

(* ====================== the handlers statement by statement ============ *)

\* nodes of the stack in the sessions followed statement by statement
MaxStepNodes == 3

\* answers with one script, with two blocks, with a script that throws, and
\* without a script
StepResponses ==
  { <<Fence, "js", " ", "addCube", " ", Fence>>,
    <<"Done", " ", Fence, "paintCube", Fence, " ", Fence, "js", " ", "moveCam", Fence>>,
    <<Fence, "addCube", " ", "boom", Fence>>,
    <<"Hello">> }

\* no handler is on the call stack
Returned0 == [op |-> "none", running |-> FALSE]

\* the event loop starts a task (an event handler, a frame callback, the
\* continuation of an await) only when the call stack is empty
CallStackEmpty == ~task.running

\* a variant of stepsExecute with an await after executeCode: the handler
\* leaves the call stack before it pushes the node
stepsExecuteAwaiting(responseText) ==
  LET code == extractCode(responseText)
      r == executeCode(code.val, [scene |-> scene, camera |-> camera])
  IN /\ CallStackEmpty
     /\ awaiting
     /\ Succeeds(responseText)
     /\ Len(sceneStateStack) < MaxStepNodes
     /\ Len(r.ctx.scene.children) <= MaxChildren
     /\ awaiting' = FALSE
     /\ scene' = r.ctx.scene
     /\ camera' = r.ctx.camera
     /\ globalThis' = IF wrote(r.ctx) THEN "written" ELSE globalThis
     /\ task' = [op |-> "handleSubmit", at |-> "executed", running |-> FALSE,
                 code |-> code,
                 seen |-> [stack |-> sceneStateStack, active |-> activeStateIndex]]
     /\ UNCHANGED << sceneStateStack, activeStateIndex, isBusy, revertActionEntries,
                     controls, disposed, history, appended, server, last >>

\* handleSubmit resumed with an answer whose script runs: extractCode and
\* executeCode(code, sceneContext); seen keeps the stack and the index the
\* handler found
stepsExecute(responseText) ==
  LET code == extractCode(responseText)
      r == executeCode(code.val, [scene |-> scene, camera |-> camera])
  IN /\ CallStackEmpty
     /\ awaiting
     /\ Succeeds(responseText)
     /\ Len(sceneStateStack) < MaxStepNodes
     /\ Len(r.ctx.scene.children) <= MaxChildren
     /\ awaiting' = FALSE
     /\ scene' = r.ctx.scene
     /\ camera' = r.ctx.camera
     /\ globalThis' = IF wrote(r.ctx) THEN "written" ELSE globalThis
     /\ task' = [op |-> "handleSubmit", at |-> "executed", running |-> TRUE,
                 code |-> code,
                 seen |-> [stack |-> sceneStateStack, active |-> activeStateIndex]]
     /\ UNCHANGED << sceneStateStack, activeStateIndex, isBusy, revertActionEntries,
                     controls, disposed, history, appended, server, last >>

\* sceneStateStack.push({ code, parentIndex, viewState: captureViewState() }) - 1
stepsPush ==
  LET v == captureViewState(camera, controls) IN
  /\ task.op = "handleSubmit" /\ task.at = "executed"
  /\ sceneStateStack' = Append(sceneStateStack, newState(task.code, v.viewState))
  /\ camera' = v.camera
  /\ controls' = v.controls
  /\ task' = [op |-> "handleSubmit", at |-> "pushed", running |-> TRUE,
              code |-> task.code, seen |-> task.seen,
              stateIndex |-> Len(sceneStateStack)]
  /\ UNCHANGED << activeStateIndex, isBusy, awaiting, revertActionEntries, scene,
                  disposed, history, appended, server, globalThis, last >>

\* activeStateIndex = stateIndex
stepsActivate ==
  /\ task.op = "handleSubmit" /\ task.at = "pushed"
  /\ activeStateIndex' = task.stateIndex
  /\ task' = [task EXCEPT !.at = "current", !.running = TRUE]
  /\ UNCHANGED << sceneStateStack, isBusy, awaiting, revertActionEntries, scene,
                  camera, controls, disposed, history, appended, server, globalThis, last >>

\* addAssistantMessageWithAction, registerRevertAction, and the finally block
stepsRegister ==
  /\ task.op = "handleSubmit" /\ task.at = "current"
  /\ revertActionEntries' =
       registerRevertAction(revertActionEntries, task.stateIndex, Len(sceneStateStack))
  /\ last' = Call("sendMessage", task.code, "applied",
                  <<Line("assistant", "Applied scene update.")>>, 1)
  /\ isBusy' = FALSE
  /\ task' = Returned0
  /\ UNCHANGED << sceneStateStack, activeStateIndex, awaiting, scene, camera,
                  controls, disposed, history, appended, server, globalThis >>

\* revertToState when idle, on a state of the stack: collectStateCodePath and
\* resetSceneToBase
stepsReset(stateIndex) ==
  LET path == collectStateCodePath(sceneStateStack, stateIndex) IN
  /\ CallStackEmpty
  /\ ~isBusy
  /\ stateIndex >= 0 /\ stateIndex < Len(sceneStateStack)
  /\ ~path.threw
  /\ scene' = resetSceneToBase(scene)
  /\ task' = [op |-> "revertToState", at |-> "replaying", running |-> TRUE,
              stateIndex |-> stateIndex, codePath |-> path.codePath, executions |-> 0]
  /\ UNCHANGED << sceneStateStack, activeStateIndex, isBusy, awaiting,
                  revertActionEntries, camera, controls, disposed, history,
                  appended, server, globalThis, last >>

\* one turn of the loop for (const code of codePath) executeCode(..); a
\* script that throws takes the handler to its catch block
stepsReplay ==
  /\ task.op = "revertToState" /\ task.at = "replaying" /\ task.codePath # <<>>
  /\ LET r == executeCode(Head(task.codePath), [scene |-> scene, camera |-> camera]) IN
     /\ Len(r.ctx.scene.children) <= MaxChildren
     /\ scene' = r.ctx.scene
     /\ camera' = r.ctx.camera
     /\ globalThis' = IF wrote(r.ctx) THEN "written" ELSE globalThis
     /\ IF r.threw
        THEN /\ last' = Call("revertToState", task.stateIndex, "failed",
                             <<Line("error", "Revert failed: " \o r.error)>>,
                             task.executions + 1)
             /\ task' = Returned0
        ELSE /\ task' = [task EXCEPT !.codePath = Tail(@), !.executions = @ + 1,
                                     !.running = TRUE]
             /\ UNCHANGED last
  /\ UNCHANGED << sceneStateStack, activeStateIndex, isBusy, awaiting,
                  revertActionEntries, controls, disposed, history, appended, server >>

\* restoreViewState(sceneStateStack[stateIndex].viewState), after the loop
stepsRestoreView ==
  /\ task.op = "revertToState" /\ task.at = "replaying" /\ task.codePath = <<>>
  /\ LET v == restoreViewState(sceneStateStack[task.stateIndex + 1].viewState,
                               camera, controls) IN
     /\ camera' = v.camera
     /\ controls' = v.controls
  /\ task' = [task EXCEPT !.at = "restored", !.running = TRUE]
  /\ UNCHANGED << sceneStateStack, activeStateIndex, isBusy, awaiting,
                  revertActionEntries, scene, disposed, history, appended, server,
                  globalThis, last >>

\* activeStateIndex = stateIndex; refreshRevertActions(); the message
stepsFinish ==
  /\ task.op = "revertToState" /\ task.at = "restored"
  /\ activeStateIndex' = task.stateIndex
  /\ revertActionEntries' = refreshRevertActions(revertActionEntries, Len(sceneStateStack))
  /\ last' = Call("revertToState", task.stateIndex, "reverted",
                  <<Line("assistant", "Reverted to scene state.")>>, task.executions)
  /\ task' = Returned0
  /\ UNCHANGED << sceneStateStack, isBusy, awaiting, scene, camera, controls,
                  disposed, history, appended, server, globalThis >>

\* what the event loop can start: a submission, the continuation of the
\* await, a click on a revert button, an animation frame.  The handlers that
\* touch neither the scene nor the tree are taken whole
Dispatched ==
  /\ CallStackEmpty
  /\ \/ \E page \in Sendable : handleSubmit(page) /\ UNCHANGED << history, appended, task, server >>
     \/ \E responseText \in StepResponses :
          /\ ~Succeeds(responseText)
          /\ sendMessageResolved(responseText, MaxStepNodes)
          /\ UNCHANGED << history, appended, task, server >>
     \/ \E responseText \in StepResponses : stepsExecute(responseText)
     \/ sendMessageRejected /\ UNCHANGED << history, appended, task, server >>
     \/ \E stateIndex \in Clickable :
          isBusy /\ revertToState(stateIndex) /\ UNCHANGED << history, appended, task, server >>
     \/ \E stateIndex \in Clickable : stepsReset(stateIndex)
     \/ frame /\ UNCHANGED << history, appended, task, server >>

\* the next statement of the handler that has started
Continued ==
  \/ stepsPush
  \/ stepsActivate
  \/ stepsRegister
  \/ stepsReplay
  \/ stepsRestoreView
  \/ stepsFinish

NextSteps == Dispatched \/ Continued

SpecSteps == Init /\ [][NextSteps]_vars

\* a handler has started on the scene or the tree and has not returned
Half == task.op # "none"

\* C31: from the execution of the script to the registration of the node's
\* button in a submit, and from the reset to the update of the current index
\* in a revert, the handler stays on the call stack: no frame, click,
\* submission or answer can be started, every step is the handler's next
\* statement, and the handler ends on the stack and the index it found (the
\* node pushed is a child of the index that was current, and becomes current)
C31_HandlersRunToCompletion ==
  /\ [](Half => (task.running /\ ~ENABLED Dispatched))
  /\ [][ Half => (task' # task /\ task'.op \in {task.op, "none"}) ]_vars
  /\ [][ (task.op = "handleSubmit" /\ task'.op = "none")
           => /\ sceneStateStack' =
                   Append(task.seen.stack,
                          [code |-> task.code, parentIndex |-> Some(task.seen.active),
                           viewState |-> sceneStateStack'[Len(sceneStateStack')].viewState])
              /\ activeStateIndex' = Len(task.seen.stack) ]_vars

\* the script of an answer has added a cube to the scene and its node is not
\* in the stack yet
C31_Witness ==
  /\ task.op = "handleSubmit" /\ task.at = "executed"
  /\ Len(sceneStateStack) = 1
  /\ Len(scene.children) > Len(createScene.children)

\* a revert has replayed the first of two scripts
C31_WitnessReplay ==
  /\ task.op = "revertToState" /\ task.at = "replaying"
  /\ task.executions = 1 /\ task.codePath # <<>>

\* C32: for every node n of the stack collectStateCodePath(n) returns: the
\* walk over the parents is at node 0 after n iterations at most and throws
\* none of its two errors, and what it returns is the scripts of the chain of
\* n, the one nearest the root first and the script of n last
C32_PathWalkTerminates ==
  \A n \in 0..(Len(sceneStateStack) - 1) :
    LET path == collectStateCodePath(sceneStateStack, n) IN
    /\ ~walkCodePath(sceneStateStack, n, <<>>, n).threw
    /\ ~path.threw
    /\ path.codePath = ScriptsTo(sceneStateStack, n)
    /\ n > 0 => /\ sceneStateStack[n + 1].parentIndex.val < n
                /\ path.codePath[Len(path.codePath)] = sceneStateStack[n + 1].code.val

\* node 3 was pushed on node 1 after a revert away from node 2: its walk is
\* at the root after two iterations and returns two scripts
C32_Witness ==
  /\ Len(sceneStateStack) = 4
  /\ sceneStateStack[4].parentIndex = Some(1)
  /\ ~walkCodePath(sceneStateStack, 3, <<>>, 2).threw
  /\ Len(collectStateCodePath(sceneStateStack, 3).codePath) = 2

\* the step is a submission that failed before the request, or a request
\* that was rejected
SubmitFailsEarly ==
  \/ ~isBusy /\ last'.op = "handleSubmit" /\ last'.outcome = "refused"
  \/ awaiting /\ last'.op = "sendMessage" /\ last'.outcome = "rejected"

C33_WitnessRefused ==
  /\ last.op = "handleSubmit" /\ last.outcome = "refused"
  /\ Len(history) = 4
  /\ ~isBusy

\* the history with a user entry and an assistant entry added
WithExchange(h, said, reply) ==
  LastN(h \o << [role |-> "user", content |-> said],
                [role |-> "assistant", content |-> reply] >>, HistoryLimit)

\* the step is the continuation of handleSubmit on an answer that arrived
AnswerArrives ==
  awaiting /\ last'.op = "sendMessage" /\ last'.outcome \in {"applied", "failed", "plain"}

\* the step is a revert that completed
RevertCompletes == RevertIssued /\ last'.outcome = "reverted"

\* C34: an answer that arrives adds the user's message and then the answer to
\* the history, whether it holds no script, a script that is applied or one
\* that throws; a revert that completes adds a user entry and an assistant
\* entry naming the state; no other step (an ignored or refused submission,
\* a rejected request, a revert refused while busy, a revert that fails)
\* changes the history
C34_HistoryChangesOnlyByExchange ==
  [][ /\ AnswerArrives
           => \E responseText \in WorkResponses \cup TalkResponses :
                /\ extractCode(responseText) = last'.arg
                /\ history' = WithExchange(history, <<"message">>, responseText)
      /\ RevertCompletes
           => history' =
                WithExchange(history,
                             <<"Revert to scene state #", StateNumber(last'.arg), ".">>,
                             <<"Reverted to scene state #", StateNumber(last'.arg), ".">>)
      /\ ~(AnswerArrives \/ RevertCompletes) => history' = history ]_vars

\* the answer whose script threw is the second entry of the history, and a
\* revert has since failed without adding one
C34_Witness ==
  /\ last.op = "revertToState" /\ last.outcome = "failed"
  /\ Len(history) = 4
  /\ history[2] = [role |-> "assistant",
                   content |-> <<Fence, "addCube", " ", "boom", Fence>>]

(* ====================== the scene context called directly ============== *)

\* scripts that add to the scene, set its fog, turn its root, move the camera
ContextScripts == { <<"addCube">>, <<"fog">>, <<"tilt">>, <<"moveCam">> }

\* a viewState argument that is null or lacks its camera or controls part
NoViewState == [camera |-> None, controls |-> None]

\* the view states restoreViewState is called with
ViewStates ==
  { [camera |-> [theta |-> theta], controls |-> [target |-> 0, enabled |-> enabled]] :
      theta \in Angles, enabled \in BOOLEAN } \cup { NoViewState }

\* a variant of resetSceneToBaseCall that puts the camera and the controls
\* back as createScene made them
resetSceneToBaseCallResettingView ==
  /\ scene' = resetSceneToBase(scene)
  /\ camera' = createCamera
  /\ controls' = createControls
  /\ last' = Call("resetSceneToBase", None, "reset", <<>>, 0)
  /\ UNCHANGED << sceneStateStack, activeStateIndex, isBusy, awaiting,
                  revertActionEntries, disposed, globalThis >>

\* sceneContext.resetSceneToBase()
resetSceneToBaseCall ==
  /\ scene' = resetSceneToBase(scene)
  /\ last' = Call("resetSceneToBase", None, "reset", <<>>, 0)
  /\ UNCHANGED << sceneStateStack, activeStateIndex, isBusy, awaiting,
                  revertActionEntries, camera, controls, disposed, globalThis >>

\* sceneContext.restoreViewState(viewState): it returns at once when the
\* argument or one of its parts is missing
restoreViewStateCall(viewState) ==
  /\ IF viewState = NoViewState
     THEN /\ UNCHANGED << camera, controls >>
          /\ last' = Call("restoreViewState", viewState, "ignored", <<>>, 0)
     ELSE /\ LET v == restoreViewState(viewState, camera, controls) IN
             /\ camera' = v.camera
             /\ controls' = v.controls
          /\ last' = Call("restoreViewState", viewState, "restored", <<>>, 0)
  /\ UNCHANGED << sceneStateStack, activeStateIndex, isBusy, awaiting,
                  revertActionEntries, scene, disposed, globalThis >>

\* the methods of the scene context, scripts, frames and pointer drags
NextContext ==
  \/ \E code \in ContextScripts : executeCodeCall(code) /\ UNCHANGED << history, appended, task, server >>
  \/ resetSceneToBaseCall /\ UNCHANGED << history, appended, task, server >>
  \/ \E viewState \in ViewStates :
       restoreViewStateCall(viewState) /\ UNCHANGED << history, appended, task, server >>
  \/ pointerDrag /\ UNCHANGED << history, appended, task, server >>
  \/ frame /\ UNCHANGED << history, appended, task, server >>

SpecContext == Init /\ [][NextContext]_vars

\* C35: resetSceneToBase leaves in the scene the base objects and no fog,
\* and the camera and the controls (target, enabled, pending rotation) as
\* they were; restoreViewState leaves the scene as it was, and with a
\* missing view state the camera and the controls too
C35_ViewIndependentOfScene ==
  [][ /\ last'.op = "resetSceneToBase"
           => /\ camera' = camera
              /\ controls' = controls
              /\ scene'.children = createScene.children
              /\ scene'.fog = FALSE
      /\ last'.op = "restoreViewState"
           => /\ scene' = scene
              /\ last'.arg = NoViewState => (camera' = camera /\ controls' = controls)
              /\ last'.arg # NoViewState
                   => /\ controls'.target = last'.arg.controls.target
                      /\ controls'.enabled = last'.arg.controls.enabled ]_vars

\* the scene was reset while the camera was turned and a rotation pending
C35_Witness ==
  /\ last.op = "resetSceneToBase"
  /\ scene.children = createScene.children
  /\ scene.tilt = 1
  /\ camera.theta # createCamera.theta
  /\ controls.delta # 0

\* a view state was restored while the scene held a cube and fog
C35_WitnessRestore ==
  /\ last.op = "restoreViewState" /\ last.outcome = "restored"
  /\ Len(scene.children) > Len(createScene.children)
  /\ scene.fog

\* C36: once dispose was called, disposed stays set, no frame is enabled
\* (the frame requested before is cancelled and returns at its first
\* statement), and no step is a frame: no update function is called by a
\* traversal and nothing is rendered
C36_NoFrameAfterDispose ==
  /\ [](disposed => ~ENABLED frame)
  /\ [][disposed => (disposed' /\ last'.op # "frame")]_vars

\* dispose was called while an object had an update function attached, and
\* the program went on: an answer arrived after it
C36_Witness ==
  /\ disposed
  /\ Attached(scene.children) # {}
  /\ last.op = "sendMessage"

(* ====================== the proxy: POST /api/chat ====================== *)

\* a value that is neither a string nor falsy (an object, a number)
AnObject == <<"<object>">>

\* the values an environment variable is given: not set, blank, a key, a key
\* with blanks around it
EnvValues == { NotAString, <<" ">>, <<"E">>, <<" ", "E", " ">> }

EnvVars == { "OPENAI_API_KEY", "ANTHROPIC_API_KEY" }

\* process.env as far as the proxy reads it
Environments == [EnvVars -> EnvValues]

\* providerCatalog of createRuntimeState
providerCatalog ==
  [ codex |-> [id |-> "codex", label |-> "Codex", type |-> "openai",
               model |-> "gpt-5.2-codex", envVar |-> "OPENAI_API_KEY"],
    claude_code |-> [id |-> "claude-code", label |-> "Claude Code", type |-> "anthropic",
                     model |-> "claude-opus-4-6", envVar |-> "ANTHROPIC_API_KEY"] ]

\* the keys of providerCatalog, in the order of Object.values
CatalogKeys == << "codex", "claude-code" >>

\* the entry of a key of the catalog
CatalogEntry(key) ==
  IF key = "codex" THEN providerCatalog.codex ELSE providerCatalog.claude_code

\* names every object literal inherits from Object.prototype
ObjectPrototypeKeys == { "constructor", "toString" }

\* what an inherited member gives for the fields of a provider entry
Inherited ==
  [id |-> "undefined", label |-> "undefined", type |-> "undefined",
   model |-> "undefined", envVar |-> "undefined"]

\* runtime.providerCatalog[selectedProvider]: an own entry, an inherited
\* member, or undefined
CatalogLookup(selectedProvider) ==
  IF selectedProvider \in { CatalogKeys[i] : i \in 1..Len(CatalogKeys) }
  THEN Some(CatalogEntry(selectedProvider))
  ELSE IF selectedProvider \in ObjectPrototypeKeys THEN Some(Inherited)
  ELSE None

\* process.env[name]
EnvOf(env, name) == IF name \in EnvVars THEN env[name] ELSE NotAString

\* Boolean(value) of a string or undefined
Truthy(value) == value # NotAString /\ value # <<>>

\* availableProviders[..].envConfigured
envConfigured(env, key) == Truthy(EnvOf(env, CatalogEntry(key).envVar))

\* defaultProvider of createRuntimeState
defaultProvider(env) ==
  IF envConfigured(env, CatalogKeys[1]) THEN CatalogKeys[1]
  ELSE IF envConfigured(env, CatalogKeys[2]) THEN CatalogKeys[2]
  ELSE CatalogKeys[1]

\* resolveApiKey
resolveApiKey(value) ==
  IF value = NotAString \/ value = AnObject THEN <<>> ELSE Trim(value)

ImagePrefixes ==
  { "data:image/jpeg;base64,", "data:image/png;base64,", "data:image/webp;base64," }

\* runs of the characters A-Z a-z 0-9 + / =
Base64Runs == { "AAAA" }

\* parseScreenshotDataUrl: null, or the mime prefix and the payload
parseScreenshotDataUrl(value) ==
  IF value = NotAString \/ value = AnObject \/ value = <<>> THEN None
  ELSE IF Len(value) = 2 /\ value[1] \in ImagePrefixes /\ value[2] \in Base64Runs
  THEN Some([mimeType |-> value[1], base64 |-> value[2]])
  ELSE None

\* the bodies the proxy receives: text that is no JSON, JSON that is no
\* object, and objects with the five fields
Messages == { NotAString, <<>>, <<" ">>, <<"hi">>, <<" ", "hi", " ">> }

Providers == { "", "codex", "claude-code", "gemini", "constructor" }

Screenshots ==
  { NotAString, <<>>, AnObject, <<"junk">>,
    <<"data:image/png;base64,", "AAAA">>, <<"data:image/png;base64,", "~">>,
    <<"data:text/html;base64,", "AAAA">> }

ApiKeys == { NotAString, <<>>, <<" ">>, <<"K">>, <<" ", "K", " ">> }

Body(json, message, provider, screenshot, apiKey) ==
  [json |-> json, message |-> message, provider |-> provider,
   screenshot |-> screenshot, apiKey |-> apiKey]

Bodies ==
  { Body("invalid", NotAString, "", NotAString, NotAString),
    Body("scalar", NotAString, "", NotAString, NotAString) }
  \cup { Body("object", message, provider, screenshot, apiKey) :
           message \in Messages, provider \in Providers,
           screenshot \in Screenshots, apiKey \in ApiKeys }

\* sendJson(res, statusCode, payload)
sendJson(responses, statusCode, payload) ==
  Append(responses, [status |-> statusCode, payload |-> payload])

\* envApiKey || requestApiKey
KeyFor(env, config, apiKey) ==
  LET envApiKey == resolveApiKey(EnvOf(env, config.envVar))
      requestApiKey == resolveApiKey(apiKey)
  IN IF envApiKey # <<>> THEN envApiKey ELSE requestApiKey

\* what chatHandler does with a body up to its try block: the error of the
\* first check that fails, or the upstream call it makes
Checked(env, body) ==
  LET selectedProvider == IF body.provider # "" THEN body.provider ELSE defaultProvider(env)
      found == CatalogLookup(selectedProvider)
      resolvedApiKey == KeyFor(env, found.val, body.apiKey)
      parsedScreenshot == parseScreenshotDataUrl(body.screenshot)
  IN IF body.json # "object"
     THEN [error |-> "Request body must be valid JSON."]
     ELSE IF body.message \in { NotAString, AnObject } \/ Trim(body.message) = <<>>
     THEN [error |-> "Request body must include a non-empty message."]
     ELSE IF ~found.some
     THEN [error |-> "Provider is not available."]
     ELSE IF resolvedApiKey = <<>>
     THEN [error |-> "No API key configured."]
     ELSE IF body.screenshot \notin { NotAString, <<>> } /\ ~parsedScreenshot.some
     THEN [error |-> "If provided, screenshot must be a data URL."]
     ELSE [error |-> "",
           call |-> [to |-> IF found.val.type = "anthropic" THEN "anthropic" ELSE "openai",
                     provider |-> selectedProvider,
                     model |-> found.val.model,
                     apiKey |-> resolvedApiKey,
                     message |-> Trim(body.message),
                     screenshot |-> parsedScreenshot]]

\* chatHandler up to its await of the provider: one of the five 400 answers,
\* or the call of callAnthropic / callOpenAI
chatHandler ==
  /\ server.request # None /\ server.upstream = <<>> /\ server.responses = <<>>
  /\ LET c == Checked(server.env.val, server.request.val) IN
     IF c.error # ""
     THEN /\ server' = [server EXCEPT !.responses = sendJson(@, 400, <<c.error>>)]
          /\ last' = Call("chatHandler", None, "400", <<>>, 0)
     ELSE /\ server' = [server EXCEPT !.upstream = Append(@, c.call)]
          /\ last' = Call("chatHandler", None, "upstream", <<>>, 0)
  /\ UNCHANGED << sceneStateStack, activeStateIndex, isBusy, awaiting, revertActionEntries,
                  scene, camera, controls, disposed, history, appended, task, globalThis >>

\* the provider answered: sendJson(res, 200, { provider, response })
upstreamResolved(responseText) ==
  /\ Len(server.upstream) = 1 /\ server.responses = <<>>
  /\ server' = [server EXCEPT !.responses = sendJson(@, 200, responseText)]
  /\ last' = Call("chatHandler", None, "200", <<>>, 0)
  /\ UNCHANGED << sceneStateStack, activeStateIndex, isBusy, awaiting, revertActionEntries,
                  scene, camera, controls, disposed, history, appended, task, globalThis >>

\* what the call of the provider is rejected with: an Error with its message,
\* or a value that is no Error
Rejections == { <<"upstream said no">>, NotAString }

\* the catch of chatHandler: sendJson(res, 500, { error: messageText })
upstreamRejected(requestError) ==
  /\ Len(server.upstream) = 1 /\ server.responses = <<>>
  /\ server' = [server EXCEPT
                  !.responses = sendJson(@, 500,
                                         IF requestError = NotAString
                                         THEN <<"Unknown provider error.">>
                                         ELSE requestError)]
  /\ last' = Call("chatHandler", Some(requestError), "500", <<>>, 0)
  /\ UNCHANGED << sceneStateStack, activeStateIndex, isBusy, awaiting, revertActionEntries,
                  scene, camera, controls, disposed, history, appended, task, globalThis >>

\* what is typed into the key field
TypedKeys == { <<>>, <<" ">>, <<"K">>, <<" ", "K", " ">> }

\* what handleSubmit finds on the page served by a proxy with this
\* environment: the entry of the selected provider in providerById (the
\* empty selection has none) and terminal.getApiKey()
PageOf(env, selected, typed) ==
  [provider |-> IF selected = "" THEN "none"
                ELSE IF envConfigured(env, selected) THEN "env" ELSE "key",
   apiKey |-> IF Trim(typed) = <<>> THEN "" ELSE "k",
   screenshot |-> TRUE]

\* the body sendMessage posts: the key is the typed one, trimmed, for a
\* provider that is not env-configured and the empty string otherwise
RequestOf(env, selected, typed) ==
  Body("object", <<"message">>, selected, <<"data:image/jpeg;base64,", "AAAA">>,
       IF envConfigured(env, selected) THEN <<>> ELSE Trim(typed))

\* handleSubmit on the page of this proxy, and the request it posts
submitToProxy(selected, typed) ==
  /\ server.request = None
  /\ handleSubmit(PageOf(server.env.val, selected, typed))
  /\ server' = IF last'.outcome = "sent"
               THEN [server EXCEPT
                       !.request = Some(RequestOf(server.env.val, selected, typed)),
                       !.from = "page"]
               ELSE server
  /\ UNCHANGED << history, appended, task >>

\* the proxy started with an environment; a request has arrived from some
\* client, or the page is open and nothing was sent yet
InitProxy ==
  LET c == captureViewState(createCamera, createControls) IN
  /\ sceneStateStack = << [code |-> None, parentIndex |-> None, viewState |-> c.viewState] >>
  /\ activeStateIndex = 0
  /\ isBusy = FALSE
  /\ awaiting = FALSE
  /\ revertActionEntries = <<>>
  /\ scene = createScene
  /\ camera = c.camera
  /\ controls = c.controls
  /\ disposed = FALSE
  /\ history = <<>>
  /\ appended = 0
  /\ task = [op |-> "none", running |-> FALSE]
  /\ globalThis = "pristine"
  /\ last = Call("createScene", None, "ready", <<Line("assistant", "Scene ready.")>>, 0)
  /\ \E env \in Environments :
       \/ server = [env |-> Some(env), request |-> None, from |-> "nobody",
                    upstream |-> <<>>, responses |-> <<>>]
       \/ \E body \in Bodies :
            server = [env |-> Some(env), request |-> Some(body), from |-> "client",
                      upstream |-> <<>>, responses |-> <<>>]

NextProxy ==
  \/ \E selected \in { "", "codex", "claude-code" }, typed \in TypedKeys :
       submitToProxy(selected, typed)
  \/ chatHandler
  \/ upstreamResolved(<<"Hello">>)
  \/ \E requestError \in Rejections : upstreamRejected(requestError)

SpecProxy == InitProxy /\ [][NextProxy]_vars

\* the provider a request selects: `provider || runtime.defaultProvider`
SelectedOf(env, body) ==
  IF body.provider # "" THEN body.provider ELSE defaultProvider(env)

\* the selected provider is an entry of the catalog
InCatalog(env, body) ==
  SelectedOf(env, body) \in { CatalogKeys[i] : i \in 1..Len(CatalogKeys) }

\* the five conditions on a request: JSON, a non-empty string as message, a
\* provider of the catalog, a key from the environment or the request, and
\* no screenshot (none or the empty string) or an image data URL
ValidRequest(env, body) ==
  /\ body.json = "object"
  /\ body.message \notin { NotAString, AnObject, <<>> }
  /\ InCatalog(env, body)
  /\ \/ resolveApiKey(EnvOf(env, CatalogEntry(SelectedOf(env, body)).envVar)) # <<>>
     \/ resolveApiKey(body.apiKey) # <<>>
  /\ body.screenshot \in { NotAString, <<>> } \/ parseScreenshotDataUrl(body.screenshot).some

\* the five checks as chatHandler makes them: the provider is whatever the
\* lookup in the catalog object gives, inherited members included, and the
\* message has more than blanks
PassesChecks(env, body) == Checked(env, body).error = ""

\* C37: the proxy calls a provider only for a request that meets the five
\* conditions, at most once; a request that fails one is answered 400
\* without a call, a failed call is answered 500 with the error's message,
\* and no request gets a second response
C37_UpstreamOnlyForValidRequests ==
  server.request # None =>
    LET body == server.request.val
        env == server.env.val
    IN /\ server.upstream # <<>> => ValidRequest(env, body)
       /\ Len(server.upstream) <= 1
       /\ Len(server.responses) <= 1
       /\ server.responses # <<>> =>
            LET res == server.responses[1] IN
            /\ ~ValidRequest(env, body) => (res.status = 400 /\ server.upstream = <<>>)
            /\ res.status = 400 => server.upstream = <<>>
            /\ res.status \in { 200, 500 } => Len(server.upstream) = 1
            /\ res.status = 500 => res.payload # <<>>

\* the same with the checks as the code makes them: a call exactly for the
\* requests that pass them, 400 for the others, one response
ChatHandlerFollowsItsChecks ==
  server.request # None =>
    LET body == server.request.val
        env == server.env.val
    IN /\ server.upstream # <<>> => PassesChecks(env, body)
       /\ Len(server.upstream) <= 1
       /\ Len(server.responses) <= 1
       /\ server.responses # <<>> =>
            LET res == server.responses[1] IN
            /\ ~PassesChecks(env, body) <=> res.status = 400
            /\ res.status = 400 => server.upstream = <<>>
            /\ res.status \in { 200, 500 } => Len(server.upstream) = 1

\* C38: the key a call of a catalog provider carries is the key of the
\* environment when the provider is env-configured and the trimmed apiKey of
\* the request otherwise; the page sends a key exactly when the selected
\* provider is not env-configured, and refuses to send exactly when nothing
\* is selected or such a provider has no key typed in
C38_KeyResolution ==
  /\ [](server.upstream # <<>> /\ InCatalog(server.env.val, server.request.val) =>
          LET body == server.request.val
              env == server.env.val
              selected == SelectedOf(env, body)
          IN server.upstream[1].apiKey =
               IF envConfigured(env, selected)
               THEN Trim(EnvOf(env, CatalogEntry(selected).envVar))
               ELSE resolveApiKey(body.apiKey))
  /\ [](server.from = "page" =>
          (server.request.val.apiKey # <<>>
             <=> ~envConfigured(server.env.val, server.request.val.provider)))
  /\ [][\A selected \in { "", "codex", "claude-code" }, typed \in TypedKeys :
          submitToProxy(selected, typed) =>
            (last'.outcome = "refused"
               <=> \/ selected = ""
                   \/ ~envConfigured(server.env.val, selected) /\ Trim(typed) = <<>>)]_vars

\* the page's half of C38 and the proxy's rule with the environment key
\* taken as set when it has more than blanks
KeyResolutionAsCoded ==
  /\ [](server.upstream # <<>> /\ InCatalog(server.env.val, server.request.val) =>
          LET body == server.request.val
              env == server.env.val
              envApiKey == resolveApiKey(EnvOf(env, CatalogEntry(SelectedOf(env, body)).envVar))
          IN server.upstream[1].apiKey =
               IF envApiKey # <<>> THEN envApiKey ELSE resolveApiKey(body.apiKey))
  /\ [](server.from = "page" =>
          (server.request.val.apiKey # <<>>
             <=> ~envConfigured(server.env.val, server.request.val.provider)))

====
